---- MODULE Spec2Model ----
(***************************************************************************)
(* Quantum-Dungeon: the planar lattice (src/game/lattice.ts) and the noise *)
(* injector (src/game/noise.ts) as a state machine.                         *)
(*                                                                         *)
(* A lattice value is the record [L, H, hErr, vErr] of a PlanarLattice     *)
(* instance; a Uint8Array is a function from 0..n-1 to {0,1}.  A 32-bit    *)
(* word of the generator is the sequence of its 32 bits, the most          *)
(* significant first, so that the shifts and the exclusive-or of           *)
(* xorshift32 keep their width.                                            *)
(***************************************************************************)
EXTENDS Integers, Sequences, FiniteSets, TLC

VARIABLES
    lattice,       \* the PlanarLattice instance: [L, H, hErr, vErr]
    rng,           \* the RNG instance: its field s, a 32-bit word
    call,          \* the last call made on the lattice and its arguments
    pre,           \* the lattice value when that call was entered
    raised,        \* TRUE iff that call threw
    ret,           \* what that call returned or, of a function that returns nothing, did
    interiorOnly,  \* every toggleEdge since construction or reset() was on an interior edge
    repeated,      \* that call is a toggleEdge of the edge the call before it toggled
    ncalls,        \* number of calls made so far
    runs,          \* the program runs compared with one another: each an RNG, a lattice and a call log
    state,         \* main.ts: the object state of the game
    used,          \* main.ts: the Set of edge keys the toggleFreshInteriorEdge calls of a burst share
    burst0,        \* the lattice when that Set was created
    finals         \* main.ts: the score of each run that has ended, as endGame found it

vars == <<lattice, rng, call, pre, raised, ret, interiorOnly, repeated, ncalls, runs, state, used, burst0,
          finals>>

-----------------------------------------------------------------------------
(* Bounds and program constants *)

\* lattice.ts:37  if (L < 3 || H < 3) throw
MinDim == 3

\* longest call sequence explored
MaxCalls == 3

\* longest call sequence explored when applyDualStep is among the calls
MaxSteps == 2

\* longest sequence of draws made from one RNG
MaxDraws == 8

\* longest call sequence explored when applyEdgeNoise is among the calls
MaxNoiseCalls == 2

\* longest sequence of toggleFreshInteriorEdge calls sharing one used set
MaxFreshCalls == 14

\* longest call sequence of each of the program runs compared
MaxRunCalls == 2

\* the lattice explored: the smallest one that is wider than high, as the game's 11 x 7 is
GridL == MinDim + 1
GridH == MinDim

-----------------------------------------------------------------------------
(* Typed arrays *)

\* new Uint8Array(n): n zero bytes
NewArray(n) == [i \in 0..(n - 1) |-> 0]

\* XorAssign1 with the bit set instead of flipped (arr[i] |= 1)
OrAssign1(arr, i) ==
    IF i \in DOMAIN arr THEN [arr EXCEPT ![i] = 1] ELSE arr

\* arr[i] ^= 1 on a Uint8Array: a write outside 0..length-1 is dropped
XorAssign1(arr, i) ==
    IF i \in DOMAIN arr THEN [arr EXCEPT ![i] = (@ + 1) % 2] ELSE arr

\* arr[i] read as a bit: outside 0..length-1 the read is undefined, which ^ and === 1 treat as 0
ArrayBit(arr, i) == IF i \in DOMAIN arr THEN arr[i] ELSE 0

Xor(a, b) == (a + b) % 2

Abs(n) == IF n < 0 THEN 0 - n ELSE n

\* a local variable: v is evaluated once, the value is bound to the parameter of F
Once(v, F(_)) == CHOOSE r \in {F(x) : x \in {v}} : TRUE

-----------------------------------------------------------------------------
(* PlanarLattice *)

HEdge(x, y) == [kind |-> "h", x |-> x, y |-> y]
VEdge(x, y) == [kind |-> "v", x |-> x, y |-> y]
FaceAt(fx, fy) == [fx |-> fx, fy |-> fy]

\* constructor(L, H), for L, H >= 3
NewLattice(L, H) ==
    [L |-> L, H |-> H,
     hErr |-> NewArray(L * (H + 1)),
     vErr |-> NewArray((L + 1) * H)]

\* what the variable of an instance holds when no instance was constructed
NoLattice == [L |-> 0, H |-> 0, hErr |-> NewArray(0), vErr |-> NewArray(0)]

\* constructor that throws only if both L and H are below the minimum
constructorBoth(L, H) ==
    IF L < MinDim /\ H < MinDim
    THEN [threw |-> TRUE, lat |-> NoLattice]
    ELSE [threw |-> FALSE, lat |-> NewLattice(L, H)]

\* new PlanarLattice(L, H): throws for L < 3 or H < 3, and then there is no instance
constructor(L, H) ==
    IF L < MinDim \/ H < MinDim
    THEN [threw |-> TRUE, lat |-> NoLattice]
    ELSE [threw |-> FALSE, lat |-> NewLattice(L, H)]

\* reset that fills hErr only
resetH(lat) ==
    [lat EXCEPT !.hErr = [i \in DOMAIN lat.hErr |-> 0]]

\* reset()
reset(lat) ==
    [lat EXCEPT !.hErr = [i \in DOMAIN lat.hErr |-> 0],
                !.vErr = [i \in DOMAIN lat.vErr |-> 0]]

inFaceBounds(lat, f) ==
    f.fx >= 0 /\ f.fx < lat.L /\ f.fy >= 0 /\ f.fy < lat.H

\* inHEdgeBounds with the column bound of the vertical edges (x <= L)
inHEdgeBoundsLoose(lat, x, y) ==
    x >= 0 /\ x <= lat.L /\ y >= 0 /\ y <= lat.H

inHEdgeBounds(lat, x, y) ==
    x >= 0 /\ x < lat.L /\ y >= 0 /\ y <= lat.H

inVEdgeBounds(lat, x, y) ==
    x >= 0 /\ x <= lat.L /\ y >= 0 /\ y < lat.H

\* hIdx with the row stride H instead of L
hIdxByH(lat, x, y) == y * lat.H + x

hIdx(lat, x, y) == y * lat.L + x

vIdx(lat, x, y) == y * (lat.L + 1) + x

\* toggleEdge(e): the lattice afterwards
toggleEdge(lat, e) ==
    IF e.kind = "h"
    THEN IF ~inHEdgeBounds(lat, e.x, e.y)
         THEN lat
         ELSE [lat EXCEPT !.hErr = XorAssign1(@, hIdx(lat, e.x, e.y))]
    ELSE IF ~inVEdgeBounds(lat, e.x, e.y)
         THEN lat
         ELSE [lat EXCEPT !.vErr = XorAssign1(@, vIdx(lat, e.x, e.y))]

\* getEdge with the face bound y < H on the rows of horizontal edges
getEdgeFaceRows(lat, e) ==
    IF e.kind = "h"
    THEN IF ~(inHEdgeBounds(lat, e.x, e.y) /\ e.y < lat.H)
         THEN 0
         ELSE ArrayBit(lat.hErr, hIdx(lat, e.x, e.y))
    ELSE IF ~inVEdgeBounds(lat, e.x, e.y)
         THEN 0
         ELSE ArrayBit(lat.vErr, vIdx(lat, e.x, e.y))

\* getEdge(e)
getEdge(lat, e) ==
    IF e.kind = "h"
    THEN IF ~inHEdgeBounds(lat, e.x, e.y)
         THEN 0
         ELSE ArrayBit(lat.hErr, hIdx(lat, e.x, e.y))
    ELSE IF ~inVEdgeBounds(lat, e.x, e.y)
         THEN 0
         ELSE ArrayBit(lat.vErr, vIdx(lat, e.x, e.y))

\* faceSyndrome(f)
faceSyndrome(lat, f) ==
    IF ~inFaceBounds(lat, f)
    THEN 0
    ELSE LET top    == getEdge(lat, HEdge(f.fx, f.fy))
             bottom == getEdge(lat, HEdge(f.fx, f.fy + 1))
             left   == getEdge(lat, VEdge(f.fx, f.fy))
             right  == getEdge(lat, VEdge(f.fx + 1, f.fy))
         IN  Xor(Xor(Xor(top, bottom), left), right)

\* listDefects(): the inner loop over fx of row fy, entered at fx
RECURSIVE listDefectsRow(_, _, _)
listDefectsRow(lat, fy, fx) ==
    IF ~(fx < lat.L)
    THEN <<>>
    ELSE (IF faceSyndrome(lat, FaceAt(fx, fy)) = 1 THEN <<FaceAt(fx, fy)>> ELSE <<>>)
         \o listDefectsRow(lat, fy, fx + 1)

\* listDefects() with the inner loop stopping one column early (fx < L - 1)
RECURSIVE listDefectsLoopShort(_, _, _)
listDefectsLoopShort(lat, fy, fx) ==
    IF ~(fy < lat.H)
    THEN <<>>
    ELSE IF ~(fx < lat.L - 1)
         THEN listDefectsLoopShort(lat, fy + 1, 0)
         ELSE (IF faceSyndrome(lat, FaceAt(fx, fy)) = 1 THEN <<FaceAt(fx, fy)>> ELSE <<>>)
              \o listDefectsLoopShort(lat, fy, fx + 1)

\* listDefects() with the loops exchanged: fx outer, fy inner
RECURSIVE listDefectsLoopColumns(_, _, _)
listDefectsLoopColumns(lat, fy, fx) ==
    IF ~(fx < lat.L)
    THEN <<>>
    ELSE IF ~(fy < lat.H)
         THEN listDefectsLoopColumns(lat, 0, fx + 1)
         ELSE (IF faceSyndrome(lat, FaceAt(fx, fy)) = 1 THEN <<FaceAt(fx, fy)>> ELSE <<>>)
              \o listDefectsLoopColumns(lat, fy + 1, fx)

\* listDefects(): the two nested loops, entered at (fy, fx)
RECURSIVE listDefectsLoop(_, _, _)
listDefectsLoop(lat, fy, fx) ==
    IF ~(fy < lat.H)
    THEN <<>>
    ELSE listDefectsRow(lat, fy, fx) \o listDefectsLoop(lat, fy + 1, 0)

listDefects(lat) == listDefectsLoop(lat, 0, 0)

\* applyDualStep with the step to the right crossing the left edge of 'from'
applyDualStepLeft(lat, from, to) ==
    LET dx == to.fx - from.fx
        dy == to.fy - from.fy
        manhattan == Abs(dx) + Abs(dy)
        fx == from.fx
        fy == from.fy
    IN  IF manhattan # 1
        THEN [lat |-> lat, threw |-> TRUE]
        ELSE IF ~inFaceBounds(lat, from) \/ ~inFaceBounds(lat, to)
        THEN [lat |-> lat, threw |-> FALSE]
        ELSE IF dx = 1 \/ dx = 0 - 1
        THEN [lat |-> toggleEdge(lat, VEdge(fx, fy)), threw |-> FALSE]
        ELSE IF dy = 1
        THEN [lat |-> toggleEdge(lat, HEdge(fx, fy + 1)), threw |-> FALSE]
        ELSE IF dy = 0 - 1
        THEN [lat |-> toggleEdge(lat, HEdge(fx, fy)), threw |-> FALSE]
        ELSE [lat |-> lat, threw |-> FALSE]

\* applyDualStep with the bounds test made before the Manhattan test
applyDualStepBoundsFirst(lat, from, to) ==
    LET dx == to.fx - from.fx
        dy == to.fy - from.fy
        manhattan == Abs(dx) + Abs(dy)
        fx == from.fx
        fy == from.fy
    IN  IF ~inFaceBounds(lat, from) \/ ~inFaceBounds(lat, to)
        THEN [lat |-> lat, threw |-> FALSE]
        ELSE IF manhattan # 1
        THEN [lat |-> lat, threw |-> TRUE]
        ELSE IF dx = 1
        THEN [lat |-> toggleEdge(lat, VEdge(fx + 1, fy)), threw |-> FALSE]
        ELSE IF dx = 0 - 1
        THEN [lat |-> toggleEdge(lat, VEdge(fx, fy)), threw |-> FALSE]
        ELSE IF dy = 1
        THEN [lat |-> toggleEdge(lat, HEdge(fx, fy + 1)), threw |-> FALSE]
        ELSE IF dy = 0 - 1
        THEN [lat |-> toggleEdge(lat, HEdge(fx, fy)), threw |-> FALSE]
        ELSE [lat |-> lat, threw |-> FALSE]

\* applyDualStep with the bounds test on 'from' only
applyDualStepFromOnly(lat, from, to) ==
    LET dx == to.fx - from.fx
        dy == to.fy - from.fy
        manhattan == Abs(dx) + Abs(dy)
        fx == from.fx
        fy == from.fy
    IN  IF manhattan # 1
        THEN [lat |-> lat, threw |-> TRUE]
        ELSE IF ~inFaceBounds(lat, from)
        THEN [lat |-> lat, threw |-> FALSE]
        ELSE IF dx = 1
        THEN [lat |-> toggleEdge(lat, VEdge(fx + 1, fy)), threw |-> FALSE]
        ELSE IF dx = 0 - 1
        THEN [lat |-> toggleEdge(lat, VEdge(fx, fy)), threw |-> FALSE]
        ELSE IF dy = 1
        THEN [lat |-> toggleEdge(lat, HEdge(fx, fy + 1)), threw |-> FALSE]
        ELSE IF dy = 0 - 1
        THEN [lat |-> toggleEdge(lat, HEdge(fx, fy)), threw |-> FALSE]
        ELSE [lat |-> lat, threw |-> FALSE]

\* applyDualStep(from, to): [lat |-> the lattice afterwards, threw |-> whether it threw]
applyDualStep(lat, from, to) ==
    LET dx == to.fx - from.fx
        dy == to.fy - from.fy
        manhattan == Abs(dx) + Abs(dy)
        fx == from.fx
        fy == from.fy
    IN  IF manhattan # 1
        THEN [lat |-> lat, threw |-> TRUE]
        ELSE IF ~inFaceBounds(lat, from) \/ ~inFaceBounds(lat, to)
        THEN [lat |-> lat, threw |-> FALSE]
        ELSE IF dx = 1
        THEN [lat |-> toggleEdge(lat, VEdge(fx + 1, fy)), threw |-> FALSE]
        ELSE IF dx = 0 - 1
        THEN [lat |-> toggleEdge(lat, VEdge(fx, fy)), threw |-> FALSE]
        ELSE IF dy = 1
        THEN [lat |-> toggleEdge(lat, HEdge(fx, fy + 1)), threw |-> FALSE]
        ELSE IF dy = 0 - 1
        THEN [lat |-> toggleEdge(lat, HEdge(fx, fy)), threw |-> FALSE]
        ELSE [lat |-> lat, threw |-> FALSE]

-----------------------------------------------------------------------------
(* RNG: xorshift32 on 32-bit words *)

\* the width of the words >>> 0 yields
WordBits == 32

\* the word whose bit at position i (1 is bit 31, WordBits is bit 0) is f[i]
WordOf(f) == SubSeq(f, 1, WordBits)

\* n >>> 0 for an integer n with -2^31 <= n < 2^31: the two's complement bits of n
ToUint32(n) ==
    WordOf([i \in 1..WordBits |->
                IF i = 1 THEN (IF n < 0 THEN 1 ELSE 0)
                ELSE (n \div (2 ^ (WordBits - i))) % 2])

\* x ^ y
Xor32(x, y) == WordOf([i \in 1..WordBits |-> Xor(x[i], y[i])])

\* x << n: the n top bits are lost, zeros enter at the bottom
Shl32(x, n) == SubSeq(x, n + 1, WordBits) \o SubSeq([i \in 1..WordBits |-> 0], 1, n)

\* Sar32 as the unsigned shift x >>> n: zeros fill the n vacated top bits
Shr32(x, n) == SubSeq([i \in 1..WordBits |-> 0], 1, n) \o SubSeq(x, 1, WordBits - n)

\* x >> n: x is read as a signed 32-bit integer, so its sign bit x[1] fills the
\* n vacated top bits
Sar32(x, n) == SubSeq([i \in 1..WordBits |-> x[1]], 1, n) \o SubSeq(x, 1, WordBits - n)

\* part_003:9 default seed 0x12345678
DefaultSeed == 305419896

\* main.ts:90 new RNG(0xC0FFEE)
GameSeed == 12648430

Seeds == {DefaultSeed, GameSeed}

\* constructor(seed): this.s = seed >>> 0
NewRNG(seed) == ToUint32(seed)

\* nextU32(): the value returned, which is also the new this.s
nextU32(s) ==
    Once(Xor32(s, Shl32(s, 13)), LAMBDA x1 :
    Once(Xor32(x1, Sar32(x1, 17)), LAMBDA x2 :
         Xor32(x2, Shl32(x2, 5))))

\* 0xffffffff
AllOnes == ToUint32(0 - 1)

\* nextFloat(): the quotient nextU32() / 0xffffffff as numerator and denominator.
\* Two numerators that differ give quotients that differ by 2^-32, far above the
\* spacing of doubles in [0, 1], so equal doubles are equal numerators.
nextFloat(s) == [num |-> nextU32(s), den |-> AllOnes]

\* the probabilities p explored are the quarters k/4, k in Quarters
Quarters == 0..4

\* f < k/4 for a value f = x / 0xffffffff of nextFloat().
\* The quotient is below k/4 iff 4x < k * (2^32 - 1): never for k = 0, x # 0xffffffff
\* for k = 4, and x < k * 2^30 for k in 1..3, which reads the two top bits of x.
\* A quotient x/0xffffffff and a quarter that differ, differ by more than 2^-35,
\* so the rounding of the double division does not change the comparison.
FloatLess(f, k) ==
    IF k <= 0 THEN FALSE
    ELSE IF k >= 4 THEN f.num # f.den
    ELSE 2 * f.num[1] + f.num[2] < k

\* applyEdgeNoiseRow with x < L in both nests
RECURSIVE applyEdgeNoiseRowStrict(_, _, _, _, _, _)
applyEdgeNoiseRowStrict(lat, s, p, kind, y, x) ==
    IF ~(x < lat.L)
    THEN [lat |-> lat, s |-> s]
    ELSE Once(nextFloat(s), LAMBDA f :
         Once(IF FloatLess(f, p)
              THEN toggleEdge(lat, [kind |-> kind, x |-> x, y |-> y])
              ELSE lat, LAMBDA l :
              applyEdgeNoiseRowStrict(l, f.num, p, kind, y, x + 1)))

\* applyEdgeNoise: the inner loop of either nest, entered at column x of row y
\* (x < L in the horizontal nest, x <= L in the vertical one); one draw per edge
RECURSIVE applyEdgeNoiseRow(_, _, _, _, _, _)
applyEdgeNoiseRow(lat, s, p, kind, y, x) ==
    IF ~(IF kind = "h" THEN x < lat.L ELSE x <= lat.L)
    THEN [lat |-> lat, s |-> s]
    ELSE Once(nextFloat(s), LAMBDA f :
         Once(IF FloatLess(f, p)
              THEN toggleEdge(lat, [kind |-> kind, x |-> x, y |-> y])
              ELSE lat, LAMBDA l :
              applyEdgeNoiseRow(l, f.num, p, kind, y, x + 1)))

\* applyEdgeNoise: the outer loop of either nest, entered at row y
\* (y <= H in the horizontal nest, y < H in the vertical one)
RECURSIVE applyEdgeNoiseRows(_, _, _, _, _)
applyEdgeNoiseRows(lat, s, p, kind, y) ==
    IF ~(IF kind = "h" THEN y <= lat.H ELSE y < lat.H)
    THEN [lat |-> lat, s |-> s]
    ELSE Once(applyEdgeNoiseRow(lat, s, p, kind, y, 0), LAMBDA r :
              applyEdgeNoiseRows(r.lat, r.s, p, kind, y + 1))

\* applyEdgeNoise(lat, p / 4, rng): the horizontal nest, then the vertical one; the
\* result is the lattice and the generator state when the function returns
applyEdgeNoise(lat, p, s) ==
    Once(applyEdgeNoiseRows(lat, s, p, "h", 0), LAMBDA r :
         applyEdgeNoiseRows(r.lat, r.s, p, "v", 0))

-----------------------------------------------------------------------------
(* main.ts: the game state and its noise helpers *)

\* main.ts:58 gridW: 11
GameW == 11

\* main.ts:59 gridH: 7
GameH == 7

\* main.ts:60 pad: 48
Pad == 48

\* main.ts:61 cell: 64
CellSize == 64

\* main.ts:64 energy: 12 (and 240, 598)
TurnEnergy == 12

\* main.ts:226 tries < 200
MaxTries == 200

\* const state = { ... } for a grid of W x H faces; initialBest is 0 when
\* localStorage holds no best score, hintPair null is the empty sequence
NewState(W, H) ==
    [gridW |-> W, gridH |-> H, pad |-> Pad, cell |-> CellSize,
     turn |-> 1, energy |-> TurnEnergy,
     score |-> 0, bestScore |-> 0, energySpentThisTurn |-> 0, gameOver |-> FALSE,
     elapsedSec |-> 0, lastTurnSec |-> 0,
     tutorialStep |-> 0, hintPair |-> <<>>,
     defects |-> <<>>, selected |-> <<>>, paths |-> <<>>]

\* the number the bits i..j of the word x spell
RECURSIVE BitsValue(_, _, _)
BitsValue(x, i, j) == IF i > j THEN 0 ELSE 2 * BitsValue(x, i, j - 1) + x[j]

\* n * x >= k * 0xffffffff for a word x with upper half hi and lower half lo:
\* n * x + k >= k * 2^32, compared half by half
MulAtLeast(hi, lo, n, k) == n * hi + ((n * lo + k) \div (2 ^ 16)) >= k * (2 ^ 16)

\* Math.floor(f * n) for a value f = x / 0xffffffff of nextFloat() and 0 < n < 2^15:
\* the number of k in 1..n with k <= n * x / 0xffffffff.  The double product is
\* on the same side of every integer as the exact one (they agree where
\* n * x / 0xffffffff is an integer, and elsewhere it is 2^-32 away from one).
FloorMul(f, n) ==
    Once(BitsValue(f.num, 1, 16), LAMBDA hi :
    Once(BitsValue(f.num, 17, WordBits), LAMBDA lo :
         Cardinality({k \in 1..n : MulAtLeast(hi, lo, n, k)})))

\* randomInteriorEdge with the row of an h edge drawn from all H + 1 rows
randomInteriorEdgeAnyRow(W, H, s) ==
    Once(nextFloat(s), LAMBDA chooseH :
    Once(nextFloat(chooseH.num), LAMBDA f1 :
    Once(nextFloat(f1.num), LAMBDA f2 :
         IF FloatLess(chooseH, 2)
         THEN [e |-> HEdge(FloorMul(f1, W), FloorMul(f2, H + 1)), s |-> f2.num]
         ELSE [e |-> VEdge(1 + FloorMul(f1, W - 1), FloorMul(f2, H)), s |-> f2.num])))

\* randomInteriorEdge() with state.gridW = W, state.gridH = H and the RNG in state s:
\* the edge returned and the state of the RNG then.  Both branches draw twice more.
randomInteriorEdge(W, H, s) ==
    Once(nextFloat(s), LAMBDA chooseH :
    Once(nextFloat(chooseH.num), LAMBDA f1 :
    Once(nextFloat(f1.num), LAMBDA f2 :
         IF FloatLess(chooseH, 2)
         THEN [e |-> HEdge(FloorMul(f1, W), 1 + FloorMul(f2, H - 1)), s |-> f2.num]
         ELSE [e |-> VEdge(1 + FloorMul(f1, W - 1), FloorMul(f2, H)), s |-> f2.num])))

\* `${e.kind}:${e.x},${e.y}`: the key of an edge in a used set
EdgeKey(e) == <<e.kind, e.x, e.y>>

\* toggleFreshTry that takes the edge it draws whether used or not
toggleFreshTryAny(lat, s, u, W, H) ==
    Once(randomInteriorEdge(W, H, s), LAMBDA r :
         [done |-> TRUE, lat |-> toggleEdge(lat, r.e), s |-> r.s,
          used |-> u \cup {EdgeKey(r.e)}])

\* toggleFreshInteriorEdge: one iteration of the loop.  done is TRUE iff the
\* iteration reached the return; then the edge drawn is in used and toggled
toggleFreshTry(lat, s, u, W, H) ==
    Once(randomInteriorEdge(W, H, s), LAMBDA r :
         IF EdgeKey(r.e) \in u
         THEN [done |-> FALSE, lat |-> lat, s |-> r.s, used |-> u]
         ELSE [done |-> TRUE, lat |-> toggleEdge(lat, r.e), s |-> r.s,
               used |-> u \cup {EdgeKey(r.e)}])

\* toggleFreshInteriorEdge: the iterations tries = lo .. hi - 1 of the loop in
\* order, as the first half of them followed, unless one returned, by the rest
RECURSIVE toggleFreshTries(_, _, _, _, _, _, _)
toggleFreshTries(lat, s, u, W, H, lo, hi) ==
    IF hi - lo = 1 THEN toggleFreshTry(lat, s, u, W, H)
    ELSE Once(toggleFreshTries(lat, s, u, W, H, lo, (lo + hi) \div 2), LAMBDA r :
              IF r.done THEN r
              ELSE toggleFreshTries(r.lat, r.s, r.used, W, H, (lo + hi) \div 2, hi))

\* toggleFreshInteriorEdge(used): the lattice, the state of the RNG and the used
\* set when the function returns, from the loop or after MaxTries iterations
toggleFreshInteriorEdge(lat, s, u, W, H) ==
    toggleFreshTries(lat, s, u, W, H, 0, MaxTries)

\* the Defect of a face: id is `${f.fx},${f.fy}`
DefectOf(f) == [id |-> <<f.fx, f.fy>>, fx |-> f.fx, fy |-> f.fy, kind |-> "Z"]

\* cellCenter(cx, cy)
cellCenter(st, cx, cy) == [x |-> st.pad + cx * st.cell, y |-> st.pad + cy * st.cell]

\* pathCost(a, b)
pathCost(a, b) == Abs(a.fx - b.fx) + Abs(a.fy - b.fy)

\* syncDefectsFromLattice(): state.defects = lattice.listDefects().map(...)
syncDefectsFromLattice(st, lat) ==
    Once(listDefects(lat), LAMBDA faces :
         [st EXCEPT !.defects = [i \in 1..Len(faces) |-> DefectOf(faces[i])]])

\* endGame(reason): bestScore is also what localStorage holds under BEST_KEY
endGame(st) ==
    [st EXCEPT !.gameOver = TRUE,
               !.bestScore = IF st.bestScore = 0 \/ st.score < st.bestScore
                             THEN st.score ELSE @]

\* winRun()
winRun(st) == endGame(st)

\* for (let i = 0; i < n; i++) toggleFreshInteriorEdge(used)
RECURSIVE freshBurst(_, _, _, _, _, _)
freshBurst(lat, s, u, W, H, n) ==
    IF n <= 0 THEN [lat |-> lat, s |-> s, used |-> u]
    ELSE Once(toggleFreshInteriorEdge(lat, s, u, W, H), LAMBDA r :
              freshBurst(r.lat, r.s, r.used, W, H, n - 1))

\* resetRun(): the state, the lattice, the state of the RNG and the used set of the
\* burst when it returns; pairs is startPairs, odd is whether the branch for an odd
\* number of defects was taken.  No frame has run since
\* performance.now() was stored, so elapsedSec is 0.
resetRun(st, lat, s) ==
    Once([st EXCEPT !.turn = 1, !.energy = TurnEnergy, !.score = 0,
                    !.energySpentThisTurn = 0, !.gameOver = FALSE,
                    !.paths = <<>>, !.selected = <<>>,
                    !.elapsedSec = 0, !.lastTurnSec = 0], LAMBDA st0 :
    Once(nextFloat(s), LAMBDA f :
    Once(freshBurst(reset(lat), f.num, {}, st.gridW, st.gridH, 12 + FloorMul(f, 3)), LAMBDA b :
    Once(syncDefectsFromLattice(st0, b.lat), LAMBDA st1 :
         IF Len(st1.defects) % 2 = 1
         THEN Once(toggleFreshInteriorEdge(b.lat, b.s, b.used, st.gridW, st.gridH), LAMBDA c :
                   [state |-> syncDefectsFromLattice(st1, c.lat), lat |-> c.lat,
                    s |-> c.s, used |-> c.used, pairs |-> 12 + FloorMul(f, 3),
                    odd |-> TRUE])
         ELSE [state |-> st1, lat |-> b.lat, s |-> b.s, used |-> b.used,
               pairs |-> 12 + FloorMul(f, 3), odd |-> FALSE]))))


\* the click handler of btnEndTurn with the noise on the odd turns
endTurnOdd(st, lat, s) ==
    Once([st EXCEPT !.lastTurnSec = st.elapsedSec,
                    !.score = @ + 2 * st.energySpentThisTurn
                                + (IF st.elapsedSec - st.lastTurnSec > 0
                                   THEN st.elapsedSec - st.lastTurnSec ELSE 0),
                    !.energySpentThisTurn = 0,
                    !.turn = @ + 1,
                    !.energy = TurnEnergy], LAMBDA st1 :
    Once(IF st1.turn % 2 = 1
         THEN Once(nextFloat(s), LAMBDA f :
              Once(freshBurst(lat, f.num, {}, st.gridW, st.gridH, 1 + FloorMul(f, 5)), LAMBDA b :
                   [state |-> syncDefectsFromLattice(st1, b.lat), lat |-> b.lat, s |-> b.s,
                    used |-> b.used, pairs |-> 1 + FloorMul(f, 5)]))
         ELSE [state |-> st1, lat |-> lat, s |-> s, used |-> {}, pairs |-> 0], LAMBDA r :
    IF Len(r.state.defects) = 0
    THEN [r EXCEPT !.state = winRun(r.state)]
    ELSE r))

\* the click handler of btnEndTurn on a run that is not over: the state, the
\* lattice, the state of the RNG and the used set of the burst when it returns;
\* pairs is pairsToAdd, 0 on a turn without noise
endTurn(st, lat, s) ==
    Once([st EXCEPT !.lastTurnSec = st.elapsedSec,
                    !.score = @ + 2 * st.energySpentThisTurn
                                + (IF st.elapsedSec - st.lastTurnSec > 0
                                   THEN st.elapsedSec - st.lastTurnSec ELSE 0),
                    !.energySpentThisTurn = 0,
                    !.turn = @ + 1,
                    !.energy = TurnEnergy], LAMBDA st1 :
    Once(IF st1.turn % 2 = 0
         THEN Once(nextFloat(s), LAMBDA f :
              Once(freshBurst(lat, f.num, {}, st.gridW, st.gridH, 1 + FloorMul(f, 5)), LAMBDA b :
                   [state |-> syncDefectsFromLattice(st1, b.lat), lat |-> b.lat, s |-> b.s,
                    used |-> b.used, pairs |-> 1 + FloorMul(f, 5)]))
         ELSE [state |-> st1, lat |-> lat, s |-> s, used |-> {}, pairs |-> 0], LAMBDA r :
    IF Len(r.state.defects) = 0
    THEN [r EXCEPT !.state = winRun(r.state)]
    ELSE r))


\* spendEnergy that refuses only when no energy is left
spendEnergyAny(st, cost) ==
    IF st.energy <= 0
    THEN [ok |-> FALSE, state |-> st]
    ELSE [ok |-> TRUE,
          state |-> [st EXCEPT !.energy = @ - cost,
                               !.energySpentThisTurn = @ + cost]]

\* spendEnergy(cost): [ok |-> the value returned, state |-> the state afterwards]
spendEnergy(st, cost) ==
    IF st.energy < cost
    THEN [ok |-> FALSE, state |-> st]
    ELSE [ok |-> TRUE,
          state |-> [st EXCEPT !.energy = @ - cost,
                               !.energySpentThisTurn = @ + cost]]

\* manhattanSegments(a, b)
manhattanSegments(st, a, b) ==
    LET A == cellCenter(st, a.fx, a.fy)
        M == cellCenter(st, b.fx, a.fy)
        B == cellCenter(st, b.fx, b.fy)
    IN  <<[a |-> A, b |-> M], [a |-> M, b |-> B]>>

\* correctionCausesLogicalFailure looking only at where each segment starts (seg.a.y)
correctionCausesLogicalFailureStart(st, path) ==
    LET topY == st.pad
        bottomY == st.pad + (st.gridH - 1) * st.cell
        touchesTop == \E i \in 1..Len(path) : path[i].a.y <= topY + 2
        touchesBottom == \E i \in 1..Len(path) : path[i].a.y >= bottomY - 2
    IN  touchesTop /\ touchesBottom

\* correctionCausesLogicalFailure(path)
correctionCausesLogicalFailure(st, path) ==
    LET topY == st.pad
        bottomY == st.pad + (st.gridH - 1) * st.cell
        touchesTop == \E i \in 1..Len(path) :
                          path[i].a.y <= topY + 2 \/ path[i].b.y <= topY + 2
        touchesBottom == \E i \in 1..Len(path) :
                             path[i].a.y >= bottomY - 2 \/ path[i].b.y >= bottomY - 2
    IN  touchesTop /\ touchesBottom

\* checkPlanarLoss(): the test is made on seg.a.y only, for every path of state.paths
checkPlanarLoss(st) ==
    LET topY == st.pad
        bottomY == st.pad + (st.gridH - 1) * st.cell
        crosses(p) ==
            /\ \E i \in 1..Len(p.segments) : p.segments[i].a.y <= topY + 2
            /\ \E i \in 1..Len(p.segments) : p.segments[i].a.y >= bottomY - 2
    IN  IF \E k \in 1..Len(st.paths) : crosses(st.paths[k])
        THEN endGame(st)
        ELSE st

\* applyCorrectionPath with the two while loops run as one: a step changes fx and
\* fy at once while both differ from those of b
RECURSIVE applyCorrectionPathDiagonal(_, _, _, _)
applyCorrectionPathDiagonal(lat, cur, b, steps) ==
    IF cur.fx # b.fx \/ cur.fy # b.fy
    THEN Once(FaceAt(cur.fx + (IF b.fx > cur.fx THEN 1 ELSE IF b.fx < cur.fx THEN 0 - 1 ELSE 0),
                     cur.fy + (IF b.fy > cur.fy THEN 1 ELSE IF b.fy < cur.fy THEN 0 - 1 ELSE 0)),
              LAMBDA nxt :
         Once(applyDualStep(lat, cur, nxt), LAMBDA r :
              IF r.threw
              THEN [lat |-> r.lat, threw |-> TRUE, steps |-> Append(steps, <<cur, nxt>>)]
              ELSE applyCorrectionPathDiagonal(r.lat, nxt, b, Append(steps, <<cur, nxt>>))))
    ELSE [lat |-> lat, threw |-> FALSE, steps |-> steps]

\* applyCorrectionPath(a, b) from the face cur on: the while loop over fx, then
\* the while loop over fy; steps are the applyDualStep calls made so far, and an
\* applyDualStep that throws ends the function
RECURSIVE applyCorrectionPathFrom(_, _, _, _)
applyCorrectionPathFrom(lat, cur, b, steps) ==
    IF cur.fx # b.fx
    THEN Once(FaceAt(cur.fx + (IF b.fx > cur.fx THEN 1 ELSE 0 - 1), cur.fy), LAMBDA nxt :
         Once(applyDualStep(lat, cur, nxt), LAMBDA r :
              IF r.threw
              THEN [lat |-> r.lat, threw |-> TRUE, steps |-> Append(steps, <<cur, nxt>>)]
              ELSE applyCorrectionPathFrom(r.lat, nxt, b, Append(steps, <<cur, nxt>>))))
    ELSE IF cur.fy # b.fy
    THEN Once(FaceAt(cur.fx, cur.fy + (IF b.fy > cur.fy THEN 1 ELSE 0 - 1)), LAMBDA nxt :
         Once(applyDualStep(lat, cur, nxt), LAMBDA r :
              IF r.threw
              THEN [lat |-> r.lat, threw |-> TRUE, steps |-> Append(steps, <<cur, nxt>>)]
              ELSE applyCorrectionPathFrom(r.lat, nxt, b, Append(steps, <<cur, nxt>>))))
    ELSE [lat |-> lat, threw |-> FALSE, steps |-> steps]

\* applyCorrectionPath(a, b): [lat |-> the lattice afterwards, threw |-> whether it
\* threw, steps |-> the applyDualStep calls it made, each <<from, to>>]
applyCorrectionPath(lat, a, b) == applyCorrectionPathFrom(lat, FaceAt(a.fx, a.fy), b, <<>>)

\* the path pushed on state.paths (t0, the time of the click, is not kept)
PathOf(segments) == [segments |-> segments, durationMs |-> 260]

\* the canvas click handler from 'if (state.selected.length === 2)' on, with
\* state.selected = <<a, b>>; an exception of applyCorrectionPath leaves the handler
\* with what was assigned before it
clickPair(st, lat, a, b) ==
    Once(spendEnergy(st, pathCost(a, b)), LAMBDA sp :
    IF ~sp.ok
    THEN [state |-> [st EXCEPT !.selected = <<a>>], lat |-> lat, threw |-> FALSE]
    ELSE Once(manhattanSegments(st, a, b), LAMBDA segments :
         IF correctionCausesLogicalFailure(st, segments)
         THEN [state |-> endGame([sp.state EXCEPT !.paths = Append(@, PathOf(segments))]),
               lat |-> lat, threw |-> FALSE]
         ELSE Once(applyCorrectionPath(lat, FaceAt(a.fx, a.fy), FaceAt(b.fx, b.fy)), LAMBDA c :
              IF c.threw
              THEN [state |-> [sp.state EXCEPT !.paths = Append(@, PathOf(segments))],
                    lat |-> c.lat, threw |-> TRUE]
              ELSE Once(checkPlanarLoss(syncDefectsFromLattice(
                            [sp.state EXCEPT !.paths = Append(@, PathOf(segments)),
                                             !.selected = <<>>], c.lat)), LAMBDA st2 :
                        [state |-> [st2 EXCEPT !.tutorialStep = IF @ = 1 THEN @ + 1 ELSE @],
                         lat |-> c.lat, threw |-> FALSE]))))

\* the canvas click handler on a run that is not over, the click hitting defect d:
\* [state |-> the state afterwards, lat |-> the lattice afterwards, threw |-> whether
\* an exception left the handler]
clickDefect(st, lat, d) ==
    IF \E i \in 1..Len(st.selected) : st.selected[i].id = d.id
    THEN [state |-> [st EXCEPT !.selected = SelectSeq(@, LAMBDA s : s.id # d.id)],
          lat |-> lat, threw |-> FALSE]
    ELSE Once(Append(st.selected, d), LAMBDA sel :
         IF Len(sel) = 1
         THEN [state |-> [st EXCEPT !.selected = sel], lat |-> lat, threw |-> FALSE]
         ELSE IF Len(sel) = 2
         THEN clickPair([st EXCEPT !.selected = sel], lat, sel[1], sel[2])
         ELSE [state |-> [st EXCEPT !.selected = <<d>>], lat |-> lat, threw |-> FALSE])


\* hitTest(mx, my): the defects state.defects holds within 18 pixels of (mx, my),
\* in the order of the list; the function returns the first one, or null if none
hitTest(st, mx, my) ==
    SelectSeq(st.defects,
              LAMBDA d : (mx - cellCenter(st, d.fx, d.fy).x) * (mx - cellCenter(st, d.fx, d.fy).x)
                           + (my - cellCenter(st, d.fx, d.fy).y) * (my - cellCenter(st, d.fx, d.fy).y)
                         <= 18 * 18)


\* findClosestPair(defs): the pair of indices i < j of the pair it returns, <<>> for
\* null; a later pair replaces the best one only if its distance is smaller
findClosestPair(defs) ==
    IF Len(defs) < 2 THEN <<>>
    ELSE LET pairs == {p \in (1..Len(defs)) \X (1..Len(defs)) : p[1] < p[2]}
             d(p) == Abs(defs[p[1]].fx - defs[p[2]].fx) + Abs(defs[p[1]].fy - defs[p[2]].fy)
             first(p, q) == p[1] < q[1] \/ (p[1] = q[1] /\ p[2] <= q[2])
             best == CHOOSE p \in pairs :
                         \A q \in pairs : d(p) < d(q) \/ (d(p) = d(q) /\ first(p, q))
         IN  <<defs[best[1]], defs[best[2]]>>

\* the click handler of btnScan on a run that is not over (hintUntil, a time
\* stamp, is not kept)
scan(st) ==
    [st EXCEPT !.hintPair = findClosestPair(st.defects),
               !.tutorialStep = IF @ = 2 THEN @ + 1 ELSE @]


\* the scores of the ended runs after a handler took the game from st to st2: a
\* handler that set gameOver called endGame, which found the score st2 holds
ended(f, st, st2) ==
    IF ~st.gameOver /\ st2.gameOver THEN Append(f, st2.score) ELSE f

-----------------------------------------------------------------------------
(* Arguments the calls are made with *)

\* h edges exist for x in 0..L-1, y in 0..H; the arguments also go one past each end
HEdgeArgs(lat) == {HEdge(x, y) : x \in (0 - 1)..lat.L, y \in (0 - 1)..(lat.H + 1)}

\* v edges exist for x in 0..L, y in 0..H-1; the arguments also go one past each end
VEdgeArgs(lat) == {VEdge(x, y) : x \in (0 - 1)..(lat.L + 1), y \in (0 - 1)..lat.H}

EdgeArgs(lat) == HEdgeArgs(lat) \cup VEdgeArgs(lat)

\* faces exist for fx in 0..L-1, fy in 0..H-1; the arguments also go one past each end
FaceArgs(lat) == {FaceAt(fx, fy) : fx \in (0 - 1)..lat.L, fy \in (0 - 1)..lat.H}

\* the edges that exist (lattice.ts:15-18)
ValidEdges(lat) ==
    {HEdge(x, y) : x \in 0..(lat.L - 1), y \in 0..lat.H}
        \cup {VEdge(x, y) : x \in 0..lat.L, y \in 0..(lat.H - 1)}

\* the faces that exist (lattice.ts:14)
ValidFaces(lat) == {FaceAt(fx, fy) : fx \in 0..(lat.L - 1), fy \in 0..(lat.H - 1)}

\* an edge shared by two faces (main.ts:209-210)
IsInteriorEdge(lat, e) ==
    IF e.kind = "h"
    THEN e.x >= 0 /\ e.x <= lat.L - 1 /\ e.y >= 1 /\ e.y <= lat.H - 1
    ELSE e.x >= 1 /\ e.x <= lat.L - 1 /\ e.y >= 0 /\ e.y <= lat.H - 1

\* the edges whose bit differs between two values of the lattice
Flipped(a, b) == {e \in ValidEdges(a) : getEdge(a, e) # getEdge(b, e)}

NoEdge == [kind |-> "-", x |-> 0, y |-> 0]
NoFace == FaceAt(0, 0)
NoRet == <<>>

Call(op, e, from, to, p) == [op |-> op, e |-> e, from |-> from, to |-> to, p |-> p]

-----------------------------------------------------------------------------
(* The state machine *)

\* const lattice = new PlanarLattice(L, H); const rng = new RNG(seed)
Init ==
    /\ lattice = NewLattice(GridL, GridH)
    /\ rng = NewRNG(GameSeed)
    /\ call = Call("new", NoEdge, NoFace, NoFace, 0)
    /\ pre = lattice
    /\ raised = FALSE
    /\ ret = NoRet
    /\ interiorOnly = TRUE
    /\ repeated = FALSE
    /\ ncalls = 0
    /\ runs = <<>>
    /\ state = NewState(GridL, GridH)
    /\ used = {}
    /\ burst0 = lattice
    /\ finals = <<>>

\* lattice.toggleEdge(e)
ToggleEdge(e) ==
    /\ ncalls < MaxCalls
    /\ lattice' = toggleEdge(lattice, e)
    /\ call' = Call("toggleEdge", e, NoFace, NoFace, 0)
    /\ pre' = lattice
    /\ raised' = FALSE
    /\ ret' = NoRet
    /\ interiorOnly' = (interiorOnly /\ IsInteriorEdge(lattice, e))
    /\ repeated' = (call.op = "toggleEdge" /\ call.e = e)
    /\ ncalls' = ncalls + 1
    /\ UNCHANGED <<rng, runs, state, used, burst0, finals>>

\* lattice.faceSyndrome(f)
FaceSyndrome(f) ==
    /\ ncalls < MaxCalls
    /\ ret' = faceSyndrome(lattice, f)
    /\ call' = Call("faceSyndrome", NoEdge, f, NoFace, 0)
    /\ pre' = lattice
    /\ raised' = FALSE
    /\ repeated' = FALSE
    /\ ncalls' = ncalls + 1
    /\ UNCHANGED <<lattice, rng, interiorOnly, runs, state, used, burst0, finals>>

\* lattice.listDefects()
ListDefects ==
    /\ ncalls < MaxCalls
    /\ ret' = listDefects(lattice)
    /\ call' = Call("listDefects", NoEdge, NoFace, NoFace, 0)
    /\ pre' = lattice
    /\ raised' = FALSE
    /\ repeated' = FALSE
    /\ ncalls' = ncalls + 1
    /\ UNCHANGED <<lattice, rng, interiorOnly, runs, state, used, burst0, finals>>

\* lattice.reset()
Reset ==
    /\ ncalls < MaxCalls
    /\ lattice' = reset(lattice)
    /\ call' = Call("reset", NoEdge, NoFace, NoFace, 0)
    /\ pre' = lattice
    /\ raised' = FALSE
    /\ ret' = NoRet
    /\ interiorOnly' = TRUE
    /\ repeated' = FALSE
    /\ ncalls' = ncalls + 1
    /\ UNCHANGED <<rng, runs, state, used, burst0, finals>>

\* lattice.applyDualStep(from, to); a throw leaves the caller with the lattice as it is
ApplyDualStep(from, to) ==
    /\ ncalls < MaxCalls
    /\ \E r \in {applyDualStep(lattice, from, to)} :
           /\ lattice' = r.lat
           /\ raised' = r.threw
           /\ interiorOnly' =
                  (interiorOnly /\ (r.lat = lattice
                                       \/ \A e \in Flipped(lattice, r.lat) : IsInteriorEdge(lattice, e)))
    /\ call' = Call("applyDualStep", NoEdge, from, to, 0)
    /\ pre' = lattice
    /\ ret' = NoRet
    /\ repeated' = FALSE
    /\ ncalls' = ncalls + 1
    /\ UNCHANGED <<rng, runs, state, used, burst0, finals>>

\* applyEdgeNoise(lattice, p / 4, rng)
ApplyEdgeNoise(p) ==
    /\ ncalls < MaxCalls
    /\ \E r \in {applyEdgeNoise(lattice, p, rng)} :
           /\ lattice' = r.lat
           /\ rng' = r.s
           /\ interiorOnly' =
                  (interiorOnly /\ \A e \in Flipped(lattice, r.lat) : IsInteriorEdge(lattice, e))
    /\ call' = Call("applyEdgeNoise", NoEdge, NoFace, NoFace, p)
    /\ pre' = lattice
    /\ raised' = FALSE
    /\ ret' = NoRet
    /\ repeated' = FALSE
    /\ ncalls' = ncalls + 1
    /\ UNCHANGED <<runs, state, used, burst0, finals>>

\* the steps applyDualStep is called with: the four unit steps, no step, the four
\* diagonal steps and a step of two faces
StepArgs ==
    {<<dx, dy>> : dx \in (0 - 1)..1, dy \in (0 - 1)..1} \cup {<<2, 0>>}

\* the calls that change the lattice, with arguments in and out of range
Next ==
    \/ \E e \in EdgeArgs(lattice) : ToggleEdge(e)
    \/ Reset

Spec == Init /\ [][Next]_vars

\* the calls that read the lattice, on a lattice that carries any errors
NextRead ==
    \/ \E e \in ValidEdges(lattice) : ToggleEdge(e)
    \/ \E f \in FaceArgs(lattice) : FaceSyndrome(f)
    \/ ListDefects

SpecRead == Init /\ [][NextRead]_vars

\* the calls a correction makes, on a lattice that carries any errors
NextStep ==
    /\ ncalls < MaxSteps
    /\ \/ \E e \in ValidEdges(lattice) : ToggleEdge(e)
       \/ \E from \in FaceArgs(lattice) : \E d \in StepArgs :
              ApplyDualStep(from, FaceAt(from.fx + d[1], from.fy + d[2]))

SpecStep == Init /\ [][NextStep]_vars

-----------------------------------------------------------------------------
(* Two program runs side by side *)

Runs == 1..2

\* the values of p the runs call applyEdgeNoise with: a quarter and three quarters
RunP == {1, 3}

\* const rng = new RNG(seed); const lattice = new PlanarLattice(L, H); nothing called yet
NewRun(seed, L, H) == [rng |-> NewRNG(seed), lattice |-> NewLattice(L, H), log |-> <<>>]

\* SetS with s a static field, one for all RNG instances
SetSShared(rs, i, s) == [j \in DOMAIN rs |-> [rs[j] EXCEPT !.rng = s]]

\* this.s = x on the RNG of run i: s is a field of the instance
SetS(rs, i, s) == [rs EXCEPT ![i].rng = s]

\* the log of run i, with the call that has just returned v: its method, its p,
\* v and the lattice of the run at the return
Logged(rs, i, op, p, v) ==
    [rs EXCEPT ![i].log = Append(@, [op |-> op, p |-> p, ret |-> v, lat |-> rs[i].lattice])]

\* two runs that construct their RNG with the same seed and lattices of the same dimensions
InitTwin ==
    /\ lattice = NewLattice(GridL, GridH)
    /\ rng = NewRNG(GameSeed)
    /\ call = Call("new", NoEdge, NoFace, NoFace, 0)
    /\ pre = lattice
    /\ raised = FALSE
    /\ ret = NoRet
    /\ interiorOnly = TRUE
    /\ repeated = FALSE
    /\ ncalls = 0
    /\ \E seed \in Seeds : runs = [i \in Runs |-> NewRun(seed, MinDim, MinDim)]
    /\ state = NewState(GridL, GridH)
    /\ used = {}
    /\ burst0 = lattice
    /\ finals = <<>>

\* rng.nextU32() in run i
RunNextU32(i) ==
    /\ Len(runs[i].log) < MaxRunCalls
    /\ \E v \in {nextU32(runs[i].rng)} :
           runs' = Logged(SetS(runs, i, v), i, "nextU32", 0, v)
    /\ UNCHANGED <<lattice, rng, call, pre, raised, ret, interiorOnly, repeated, ncalls, state, used, burst0, finals>>

\* rng.nextFloat() in run i
RunNextFloat(i) ==
    /\ Len(runs[i].log) < MaxRunCalls
    /\ \E f \in {nextFloat(runs[i].rng)} :
           runs' = Logged(SetS(runs, i, f.num), i, "nextFloat", 0, f)
    /\ UNCHANGED <<lattice, rng, call, pre, raised, ret, interiorOnly, repeated, ncalls, state, used, burst0, finals>>

\* applyEdgeNoise(lattice, p / 4, rng) in run i
RunApplyEdgeNoise(i, p) ==
    /\ Len(runs[i].log) < MaxRunCalls
    /\ \E r \in {applyEdgeNoise(runs[i].lattice, p, runs[i].rng)} :
           runs' = Logged([SetS(runs, i, r.s) EXCEPT ![i].lattice = r.lat],
                          i, "applyEdgeNoise", p, NoRet)
    /\ UNCHANGED <<lattice, rng, call, pre, raised, ret, interiorOnly, repeated, ncalls, state, used, burst0, finals>>

\* the runs make their calls in any order, each run any calls
NextTwin ==
    \E i \in Runs :
        \/ RunNextU32(i)
        \/ RunNextFloat(i)
        \/ \E p \in RunP : RunApplyEdgeNoise(i, p)

SpecTwin == InitTwin /\ [][NextTwin]_vars

-----------------------------------------------------------------------------
(* One RNG drawn from *)

\* the seeds new RNG(seed) is called with: zero, one, the ends of the signed and
\* of the unsigned range, the two seeds of the source, and the two seeds from
\* which nextU32() would return 0xffffffff on the first and on the second call
\* if x >> 17 shifted zeros in (0x5e6cfce7 and 0xe063f306), and the seeds whose
\* first, second and third draw is the largest a draw at that place can be
\* (0x4707e94a draws 0xfffffffd, 0x5d54c293 and 0x518ad9ac draw 0xfffffff9)
SeedArgs ==
    {0, 1, 0 - 1, 2147483647, 0 - 2147483647 - 1, DefaultSeed, GameSeed,
     1584200935, 0 - 530320634, 1191700810, 1565835923, 1368054188}

\* const rng = new RNG(seed)
InitRng ==
    /\ lattice = NewLattice(GridL, GridH)
    /\ \E seed \in SeedArgs : rng = NewRNG(seed)
    /\ call = Call("new", NoEdge, NoFace, NoFace, 0)
    /\ pre = lattice
    /\ raised = FALSE
    /\ ret = NoRet
    /\ interiorOnly = TRUE
    /\ repeated = FALSE
    /\ ncalls = 0
    /\ runs = <<>>
    /\ state = NewState(GridL, GridH)
    /\ used = {}
    /\ burst0 = lattice
    /\ finals = <<>>

\* rng.nextU32()
NextU32 ==
    /\ ncalls < MaxDraws
    /\ \E v \in {nextU32(rng)} :
           /\ rng' = v
           /\ ret' = v
    /\ call' = Call("nextU32", NoEdge, NoFace, NoFace, 0)
    /\ pre' = lattice
    /\ raised' = FALSE
    /\ repeated' = FALSE
    /\ ncalls' = ncalls + 1
    /\ UNCHANGED <<lattice, interiorOnly, runs, state, used, burst0, finals>>

\* rng.nextFloat()
NextFloat ==
    /\ ncalls < MaxDraws
    /\ \E f \in {nextFloat(rng)} :
           /\ rng' = f.num
           /\ ret' = f
    /\ call' = Call("nextFloat", NoEdge, NoFace, NoFace, 0)
    /\ pre' = lattice
    /\ raised' = FALSE
    /\ repeated' = FALSE
    /\ ncalls' = ncalls + 1
    /\ UNCHANGED <<lattice, interiorOnly, runs, state, used, burst0, finals>>

NextRng ==
    \/ NextU32
    \/ NextFloat

SpecRng == InitRng /\ [][NextRng]_vars

-----------------------------------------------------------------------------
(* Noise on a lattice that carries any errors *)

NextNoise ==
    /\ ncalls < MaxNoiseCalls
    /\ \/ \E e \in ValidEdges(lattice) : ToggleEdge(e)
       \/ \E p \in Quarters : ApplyEdgeNoise(p)

SpecNoise == Init /\ [][NextNoise]_vars

-----------------------------------------------------------------------------
(* The noise helpers of main.ts called one at a time *)

\* the grids explored: the smallest, the one of the lattice calls, and the game's
GridArgs == {<<MinDim, MinDim>>, <<GridL, GridH>>, <<GameW, GameH>>}

\* state.gridW, state.gridH, new PlanarLattice(state.gridW, state.gridH), new RNG(seed)
InitEdge ==
    /\ \E g \in GridArgs :
           /\ lattice = NewLattice(g[1], g[2])
           /\ state = NewState(g[1], g[2])
    /\ \E seed \in SeedArgs : rng = NewRNG(seed)
    /\ call = Call("new", NoEdge, NoFace, NoFace, 0)
    /\ pre = lattice
    /\ raised = FALSE
    /\ ret = NoRet
    /\ interiorOnly = TRUE
    /\ repeated = FALSE
    /\ ncalls = 0
    /\ runs = <<>>
    /\ used = {}
    /\ burst0 = lattice
    /\ finals = <<>>

\* randomInteriorEdge()
RandomInteriorEdge ==
    /\ ncalls < MaxDraws
    /\ \E r \in {randomInteriorEdge(state.gridW, state.gridH, rng)} :
           /\ ret' = r.e
           /\ rng' = r.s
    /\ call' = Call("randomInteriorEdge", NoEdge, NoFace, NoFace, 0)
    /\ pre' = lattice
    /\ raised' = FALSE
    /\ repeated' = FALSE
    /\ ncalls' = ncalls + 1
    /\ UNCHANGED <<lattice, interiorOnly, runs, state, used, burst0, finals>>

NextEdge == RandomInteriorEdge

SpecEdge == InitEdge /\ [][NextEdge]_vars

-----------------------------------------------------------------------------
(* One burst of toggleFreshInteriorEdge calls *)

\* the lattices a burst starts on: all-zero, and after toggleEdge calls on an
\* interior and on a boundary edge
BurstLattices(W, H) ==
    {NewLattice(W, H), toggleEdge(toggleEdge(NewLattice(W, H), HEdge(0, 1)), VEdge(0, 0))}

\* new PlanarLattice(W, H); new RNG(seed); toggleEdge calls; const used = new Set<string>()
InitFresh ==
    /\ \E g \in {<<MinDim, MinDim>>, <<GridL, GridH>>} :
           /\ lattice \in BurstLattices(g[1], g[2])
           /\ state = NewState(g[1], g[2])
    /\ \E seed \in Seeds \cup {0} : rng = NewRNG(seed)
    /\ call = Call("new", NoEdge, NoFace, NoFace, 0)
    /\ pre = lattice
    /\ raised = FALSE
    /\ ret = NoRet
    /\ interiorOnly = TRUE
    /\ repeated = FALSE
    /\ ncalls = 0
    /\ runs = <<>>
    /\ used = {}
    /\ burst0 = lattice
    /\ finals = <<>>

\* toggleFreshInteriorEdge(used)
ToggleFreshInteriorEdge ==
    /\ ncalls < MaxFreshCalls
    /\ \E r \in {toggleFreshInteriorEdge(lattice, rng, used, state.gridW, state.gridH)} :
           /\ lattice' = r.lat
           /\ rng' = r.s
           /\ used' = r.used
    /\ call' = Call("toggleFreshInteriorEdge", NoEdge, NoFace, NoFace, 0)
    /\ pre' = lattice
    /\ raised' = FALSE
    /\ ret' = NoRet
    /\ repeated' = FALSE
    /\ ncalls' = ncalls + 1
    /\ UNCHANGED <<interiorOnly, runs, state, burst0, finals>>

NextFresh == ToggleFreshInteriorEdge

SpecFresh == InitFresh /\ [][NextFresh]_vars

-----------------------------------------------------------------------------
(* Construction *)

\* the dimensions the constructor is called with: from below zero to above the minimum
DimArgs == (0 - 1)..(MinDim + 1)

\* before any new PlanarLattice(L, H)
InitNew ==
    /\ lattice = NoLattice
    /\ rng = NewRNG(GameSeed)
    /\ call = Call("none", NoEdge, NoFace, NoFace, 0)
    /\ pre = lattice
    /\ raised = FALSE
    /\ ret = NoRet
    /\ interiorOnly = TRUE
    /\ repeated = FALSE
    /\ ncalls = 0
    /\ runs = <<>>
    /\ state = NewState(GridL, GridH)
    /\ used = {}
    /\ burst0 = lattice
    /\ finals = <<>>

\* lattice = new PlanarLattice(L, H); pre is the instance the variable held before
Construct(L, H) ==
    /\ ncalls < MaxCalls
    /\ \E r \in {constructor(L, H)} :
           /\ lattice' = r.lat
           /\ raised' = r.threw
    /\ call' = [Call("constructor", NoEdge, NoFace, NoFace, 0) EXCEPT !.from = FaceAt(L, H)]
    /\ pre' = lattice
    /\ ret' = NoRet
    /\ interiorOnly' = TRUE
    /\ repeated' = FALSE
    /\ ncalls' = ncalls + 1
    /\ UNCHANGED <<rng, runs, state, used, burst0, finals>>

\* constructions with dimensions of any size, and calls on the instances constructed
NextNew ==
    \/ \E L \in DimArgs : \E H \in DimArgs : Construct(L, H)
    \/ /\ lattice # NoLattice
       /\ \/ \E e \in ValidEdges(lattice) : ToggleEdge(e)
          \/ ListDefects

SpecNew == InitNew /\ [][NextNew]_vars

-----------------------------------------------------------------------------
(* The game of main.ts: its buttons *)

\* the most End Turn and Restart clicks of one exploration
MaxTurns == 6

\* the module body of main.ts run to its end on a gridW x gridH grid: state, lattice
\* and rng are constructed, then resetRun() starts the first run
InitRun(W, H) ==
    /\ \E r \in {resetRun(NewState(W, H), NewLattice(W, H), NewRNG(GameSeed))} :
           /\ state = r.state
           /\ lattice = r.lat
           /\ rng = r.s
           /\ used = r.used
           /\ call = Call("resetRun", NoEdge, NoFace, NoFace, r.pairs)
           /\ ret = <<r.odd>>
    /\ pre = NewLattice(W, H)
    /\ burst0 = NewLattice(W, H)
    /\ finals = <<>>
    /\ raised = FALSE
    /\ interiorOnly = TRUE
    /\ repeated = FALSE
    /\ ncalls = 0
    /\ runs = <<>>

\* the game as shipped: gridW 11, gridH 7
InitGame == InitRun(GameW, GameH)

\* btnRestart "click": resetRun(); ret is whether resetRun took its branch for an odd
\* number of defects
Restart ==
    /\ \E r \in {resetRun(state, lattice, rng)} :
           /\ state' = r.state
           /\ lattice' = r.lat
           /\ rng' = r.s
           /\ used' = r.used
           /\ call' = Call("resetRun", NoEdge, NoFace, NoFace, r.pairs)
           /\ ret' = <<r.odd>>
    /\ pre' = lattice
    /\ burst0' = reset(lattice)
    /\ raised' = FALSE
    /\ ncalls' = ncalls + 1
    /\ finals' = ended(finals, state, state')
    /\ UNCHANGED <<interiorOnly, repeated, runs>>

\* btnEndTurn "click" without the return on state.gameOver
EndTurnOver ==
    /\ \E r \in {endTurn(state, lattice, rng)} :
           /\ state' = r.state
           /\ lattice' = r.lat
           /\ rng' = r.s
           /\ used' = r.used
           /\ call' = Call("endTurn", NoEdge, NoFace, NoFace, r.pairs)
    /\ pre' = lattice
    /\ burst0' = lattice
    /\ raised' = FALSE
    /\ ret' = NoRet
    /\ ncalls' = ncalls + 1
    /\ finals' = ended(finals, state, state')
    /\ UNCHANGED <<interiorOnly, repeated, runs>>

\* btnEndTurn "click"
EndTurn ==
    /\ IF state.gameOver
       THEN /\ call' = Call("endTurn", NoEdge, NoFace, NoFace, 0)
            /\ UNCHANGED <<state, lattice, rng, used>>
       ELSE \E r \in {endTurn(state, lattice, rng)} :
                /\ state' = r.state
                /\ lattice' = r.lat
                /\ rng' = r.s
                /\ used' = r.used
                /\ call' = Call("endTurn", NoEdge, NoFace, NoFace, r.pairs)
    /\ pre' = lattice
    /\ burst0' = lattice
    /\ raised' = FALSE
    /\ ret' = NoRet
    /\ ncalls' = ncalls + 1
    /\ finals' = ended(finals, state, state')
    /\ UNCHANGED <<interiorOnly, repeated, runs>>

NextGame ==
    \/ ncalls < MaxTurns /\ EndTurn
    \/ ncalls < MaxTurns /\ Restart

SpecGame == InitGame /\ [][NextGame]_vars

-----------------------------------------------------------------------------
(* The game of main.ts played on a small board: clicks on the canvas and End Turn *)

\* the most events (canvas clicks and End Turn clicks) of one exploration
MaxEvents == 6

\* the module body of main.ts run to its end on the smallest board
InitPlay == InitRun(MinDim, MinDim)

\* canvas "click" at the centre of the cell of face f
Click(f) ==
    /\ IF state.gameOver
       THEN raised' = FALSE /\ UNCHANGED <<state, lattice>>
       ELSE \E hits \in {hitTest(state, cellCenter(state, f.fx, f.fy).x,
                                        cellCenter(state, f.fx, f.fy).y)} :
                IF hits = <<>>
                THEN raised' = FALSE /\ UNCHANGED <<state, lattice>>
                ELSE \E r \in {clickDefect(state, lattice, Head(hits))} :
                         /\ state' = r.state
                         /\ lattice' = r.lat
                         /\ raised' = r.threw
    /\ call' = Call("click", NoEdge, f, NoFace, 0)
    /\ pre' = lattice
    /\ ret' = NoRet
    /\ ncalls' = ncalls + 1
    /\ finals' = ended(finals, state, state')
    /\ UNCHANGED <<rng, used, burst0, interiorOnly, repeated, runs>>

NextPlay ==
    \/ \E f \in ValidFaces(lattice) : ncalls < MaxEvents /\ Click(f)
    \/ ncalls < MaxEvents /\ EndTurn

SpecPlay == InitPlay /\ [][NextPlay]_vars

-----------------------------------------------------------------------------
(* applyCorrectionPath called between any two faces *)

\* the most applyCorrectionPath calls of one exploration
MaxPaths == 2

\* new PlanarLattice(W, H) on the smallest board and on the smallest one that is
\* wider than high, all-zero or after toggleEdge calls
InitPath ==
    /\ \E g \in {<<MinDim, MinDim>>, <<GridL, GridH>>} :
           /\ lattice \in BurstLattices(g[1], g[2])
           /\ state = NewState(g[1], g[2])
    /\ rng = NewRNG(GameSeed)
    /\ call = Call("new", NoEdge, NoFace, NoFace, 0)
    /\ pre = lattice
    /\ raised = FALSE
    /\ ret = NoRet
    /\ interiorOnly = TRUE
    /\ repeated = FALSE
    /\ ncalls = 0
    /\ runs = <<>>
    /\ used = {}
    /\ burst0 = lattice
    /\ finals = <<>>

\* applyCorrectionPath(a, b); ret is the sequence of the applyDualStep calls it made
ApplyCorrectionPath(a, b) ==
    /\ \E r \in {applyCorrectionPath(lattice, a, b)} :
           /\ lattice' = r.lat
           /\ raised' = r.threw
           /\ ret' = r.steps
    /\ call' = Call("applyCorrectionPath", NoEdge, a, b, 0)
    /\ pre' = lattice
    /\ repeated' = FALSE
    /\ ncalls' = ncalls + 1
    /\ UNCHANGED <<rng, interiorOnly, runs, state, used, burst0, finals>>

NextPath ==
    \E a \in ValidFaces(lattice), b \in ValidFaces(lattice) :
        ncalls < MaxPaths /\ ApplyCorrectionPath(a, b)

SpecPath == InitPath /\ [][NextPath]_vars

-----------------------------------------------------------------------------
(* The game of main.ts with all its inputs *)

\* the most inputs (canvas clicks and button clicks) of one exploration
MaxInputs == 4

\* a board wide enough for the energy of a turn to run out: 7 x 3
WideW == 2 * MinDim + 1

\* the module body of main.ts run to its end on the wide board
InitWhole == InitRun(WideW, MinDim)

\* btnScan "click"
Scan ==
    /\ state' = IF state.gameOver THEN state ELSE scan(state)
    /\ call' = Call("scan", NoEdge, NoFace, NoFace, 0)
    /\ pre' = lattice
    /\ raised' = FALSE
    /\ ret' = NoRet
    /\ ncalls' = ncalls + 1
    /\ finals' = ended(finals, state, state')
    /\ UNCHANGED <<lattice, rng, used, burst0, interiorOnly, repeated, runs>>

NextWhole ==
    \/ \E f \in ValidFaces(lattice) : ncalls < MaxInputs /\ Click(f)
    \/ ncalls < MaxInputs /\ Scan
    \/ ncalls < MaxInputs /\ EndTurn
    \/ ncalls < MaxInputs /\ Restart

SpecWhole == InitWhole /\ [][NextWhole]_vars

-----------------------------------------------------------------------------
(* Runs of the game one after another, with the clock of the main loop *)

\* the most inputs (canvas clicks and button clicks) of one exploration
MaxRunInputs == 6

\* the most seconds the main loop counts in one run
MaxSec == 1

\* the module body of main.ts run to its end on the smallest board; localStorage
\* holds no best score
InitRuns == InitRun(MinDim, MinDim)

\* the cells the canvas is clicked in: the middle column, which holds a defect of
\* the top row and one of the bottom row when the board is loaded
RunFaces(lat) == {f \in ValidFaces(lat) : f.fx = lat.L \div 2}

\* loop(now), the animation frame callback, at the first frame of a new second:
\* (now - startTime) / 1000 has grown by one since the frame before
Frame ==
    /\ state.elapsedSec < MaxSec
    /\ state' = IF state.gameOver THEN state ELSE [state EXCEPT !.elapsedSec = @ + 1]
    /\ call' = Call("loop", NoEdge, NoFace, NoFace, 0)
    /\ pre' = lattice
    /\ raised' = FALSE
    /\ ret' = NoRet
    /\ UNCHANGED <<lattice, rng, used, burst0, interiorOnly, repeated, runs, ncalls, finals>>

\* every run is played to its end: Restart is clicked on a run that is over
NextRuns ==
    \/ \E f \in RunFaces(lattice) : ncalls < MaxRunInputs /\ Click(f)
    \/ ncalls < MaxRunInputs /\ EndTurn
    \/ ncalls < MaxRunInputs /\ state.gameOver /\ Restart
    \/ Frame

SpecRuns == InitRuns /\ [][NextRuns]_vars

-----------------------------------------------------------------------------
(* What the claims are stated with *)

\* the four boundary edges of a face (lattice.ts:20-24)
FaceEdges(f) ==
    {HEdge(f.fx, f.fy), HEdge(f.fx, f.fy + 1), VEdge(f.fx, f.fy), VEdge(f.fx + 1, f.fy)}

\* e is one of the four boundary edges of f (lattice.ts:20-24)
IsEdgeOf(e, f) ==
    IF e.kind = "h"
    THEN e.x = f.fx /\ (e.y = f.fy \/ e.y = f.fy + 1)
    ELSE e.y = f.fy /\ (e.x = f.fx \/ e.x = f.fx + 1)

\* the faces an edge is a boundary edge of
AdjacentFaces(lat, e) == {f \in ValidFaces(lat) : IsEdgeOf(e, f)}

\* an existing edge with one face only
IsBoundaryEdge(lat, e) == e \in ValidEdges(lat) /\ ~IsInteriorEdge(lat, e)

\* the faces, existing or not, whose syndrome differs between two values of the lattice
ChangedFaces(a, b) == {f \in FaceArgs(a) : faceSyndrome(a, f) # faceSyndrome(b, f)}

\* some edge of the lattice carries an error
HasErrors(lat) == \E e \in ValidEdges(lat) : getEdge(lat, e) = 1

\* row-major order of faces: fy ascending, fx ascending within a row
RowMajorBefore(f, g) == f.fy < g.fy \/ (f.fy = g.fy /\ f.fx < g.fx)

\* the parity of the four stored bits of an existing face, read from the arrays
StoredSyndrome(lat, f) ==
    (lat.hErr[f.fy * lat.L + f.fx] + lat.hErr[(f.fy + 1) * lat.L + f.fx]
        + lat.vErr[f.fy * (lat.L + 1) + f.fx] + lat.vErr[f.fy * (lat.L + 1) + f.fx + 1]) % 2

StepDx == call.to.fx - call.from.fx
StepDy == call.to.fy - call.from.fy
StepIsUnit == Abs(StepDx) + Abs(StepDy) = 1

\* the edge the direction mapping of applyDualStep names for the last step
MappedEdge ==
    IF StepDx = 1 THEN VEdge(call.from.fx + 1, call.from.fy)
    ELSE IF StepDx = 0 - 1 THEN VEdge(call.from.fx, call.from.fy)
    ELSE IF StepDy = 1 THEN HEdge(call.from.fx, call.from.fy + 1)
    ELSE HEdge(call.from.fx, call.from.fy)

-----------------------------------------------------------------------------
(* Claims *)

\* C1 Parity conservation: as long as every toggleEdge since the all-zero lattice
\* (construction or reset) was on an interior edge, listDefects().length is even.
C1_ParityConservation ==
    interiorOnly => Len(listDefects(lattice)) % 2 = 0

\* two interior toggles later four faces are defects
C1_Witness ==
    /\ interiorOnly
    /\ call.op = "toggleEdge"
    /\ ncalls >= 2
    /\ Len(listDefects(lattice)) = 4

\* C2 Syndrome locality: one toggleEdge on an interior edge changes faceSyndrome of
\* exactly its two adjacent faces, one on a boundary edge changes it for exactly
\* one face (the adjacent one), and no other face changes.
C2_SyndromeLocality ==
    (call.op = "toggleEdge" /\ call.e \in ValidEdges(pre)) =>
        \E changed \in {ChangedFaces(pre, lattice)} :
            /\ changed = AdjacentFaces(pre, call.e)
            /\ IsInteriorEdge(pre, call.e) => Cardinality(changed) = 2
            /\ IsBoundaryEdge(pre, call.e) => Cardinality(changed) = 1

\* a boundary edge is toggled on a lattice that already carries errors
C2_Witness ==
    /\ call.op = "toggleEdge"
    /\ IsBoundaryEdge(pre, call.e)
    /\ HasErrors(pre)
    /\ Cardinality(ChangedFaces(pre, lattice)) = 1

\* C3 Toggle involution: a toggleEdge that follows a toggleEdge of the same edge
\* (in range or not) leaves getEdge of every edge and faceSyndrome of every face
\* as they were before the first of the two calls.
C3_ToggleInvolution ==
    [][(call.op = "toggleEdge" /\ call'.op = "toggleEdge" /\ call'.e = call.e
            /\ ncalls' = ncalls + 1) =>
           /\ \A e \in EdgeArgs(pre) : getEdge(lattice, e)' = getEdge(pre, e)
           /\ \A f \in FaceArgs(pre) : faceSyndrome(lattice, f)' = faceSyndrome(pre, f)]_vars

\* an existing edge has been toggled twice in a row on a lattice that carries errors
C3_Witness ==
    /\ repeated
    /\ call.e \in ValidEdges(lattice)
    /\ HasErrors(lattice)

\* C4 Boundary no-op: toggleEdge on an edge outside the range of its kind raises
\* nothing, leaves getEdge of every existing edge unchanged, and getEdge of the
\* edge itself is 0 before and after.
C4_BoundaryNoOp ==
    (call.op = "toggleEdge" /\ call.e \notin ValidEdges(pre)) =>
        /\ ~raised
        /\ \A e \in ValidEdges(pre) : getEdge(lattice, e) = getEdge(pre, e)
        /\ getEdge(pre, call.e) = 0
        /\ getEdge(lattice, call.e) = 0

\* the column just right of the last horizontal edge is toggled on a lattice with errors
C4_Witness ==
    /\ call.op = "toggleEdge"
    /\ call.e.kind = "h"
    /\ call.e.x = pre.L
    /\ call.e.y \in 0..pre.H
    /\ HasErrors(pre)

\* C5 Dual step: a unit step between two existing faces raises nothing and flips
\* exactly one edge bit, the edge of the direction mapping, which is the edge the
\* two faces share (so the step back flips the same edge).
C5_DualStepEdge ==
    (call.op = "applyDualStep" /\ StepIsUnit
        /\ call.from \in ValidFaces(pre) /\ call.to \in ValidFaces(pre)) =>
        /\ ~raised
        /\ Flipped(pre, lattice) = {MappedEdge}
        /\ FaceEdges(call.from) \cap FaceEdges(call.to) = {MappedEdge}

\* a step to the right on a lattice with errors
C5_Witness ==
    /\ call.op = "applyDualStep"
    /\ StepDx = 1
    /\ call.from \in ValidFaces(pre) /\ call.to \in ValidFaces(pre)
    /\ HasErrors(pre)

\* C6 Invalid step: applyDualStep with |dx| + |dy| # 1 throws and leaves every
\* edge bit as it was, whether or not the faces exist.
C6_InvalidStep ==
    (call.op = "applyDualStep" /\ ~StepIsUnit) => (raised /\ lattice = pre)

\* a step of two faces from a face outside the lattice, on a lattice with errors
C6_Witness ==
    /\ call.op = "applyDualStep"
    /\ StepDx = 2
    /\ call.from \notin ValidFaces(pre)
    /\ HasErrors(pre)
    /\ raised

\* C7 Step across the boundary: a unit step with an endpoint outside the lattice
\* raises nothing and leaves every edge bit as it was.
C7_StepOutside ==
    (call.op = "applyDualStep" /\ StepIsUnit
        /\ (call.from \notin ValidFaces(pre) \/ call.to \notin ValidFaces(pre))) =>
        (~raised /\ lattice = pre)

\* a step from a face of the last column out of the lattice, on a lattice with errors
C7_Witness ==
    /\ call.op = "applyDualStep"
    /\ StepDx = 1
    /\ call.from \in ValidFaces(pre)
    /\ call.to \notin ValidFaces(pre)
    /\ HasErrors(pre)

\* C8 listDefects returns exactly the existing faces of syndrome 1, each once, in
\* row-major order, and changes no edge bit.
C8_ListDefects ==
    call.op = "listDefects" =>
        /\ lattice = pre
        /\ {ret[i] : i \in 1..Len(ret)} = {f \in ValidFaces(lattice) : faceSyndrome(lattice, f) = 1}
        /\ \A i \in 1..Len(ret) : \A j \in 1..Len(ret) : i < j => RowMajorBefore(ret[i], ret[j])

\* two defects are listed of which the first lies right of the second, a row above it
C8_Witness ==
    /\ call.op = "listDefects"
    /\ Len(ret) >= 2
    /\ \E i \in 1..Len(ret) : \E j \in 1..Len(ret) : i < j /\ ret[i].fx > ret[j].fx

\* C9 faceSyndrome is 0 for a face that does not exist and the parity of the four
\* stored bits h(fx,fy), h(fx,fy+1), v(fx,fy), v(fx+1,fy) otherwise; it and the
\* defect list are determined by the stored bits alone.
C9_FaceSyndrome ==
    /\ call.op = "faceSyndrome" =>
           /\ lattice = pre
           /\ ret = IF call.from \in ValidFaces(lattice)
                    THEN StoredSyndrome(lattice, call.from) ELSE 0
    /\ call.op = "listDefects" =>
           \A f \in ValidFaces(lattice) :
               (\E i \in 1..Len(ret) : ret[i] = f) <=> StoredSyndrome(lattice, f) = 1

\* the syndrome of a face of the last row is 1 because of its bottom edge
C9_Witness ==
    /\ call.op = "faceSyndrome"
    /\ call.from \in ValidFaces(lattice)
    /\ call.from.fy = lattice.H - 1
    /\ getEdge(lattice, HEdge(call.from.fx, lattice.H)) = 1
    /\ ret = 1

\* the k-th call of each run is made on RNGs that have drawn equally often: call
\* by call, the runs have so far either both drawn one value or both run the noise
SameStream(k) ==
    \A j \in 1..(k - 1) :
        (runs[1].log[j].op = "applyEdgeNoise") = (runs[2].log[j].op = "applyEdgeNoise")

\* the lattice of run i when its k-th call was entered
LatticeBefore(i, k) ==
    IF k = 1 THEN NewLattice(MinDim, MinDim) ELSE runs[i].log[k - 1].lat

\* the calls both runs have made
BothCalled ==
    {k \in 1..Len(runs[1].log) : k <= Len(runs[2].log)}

\* C10: two RNGs constructed with the same seed return the same value on every
\* corresponding nextU32() / nextFloat() call, and two applyEdgeNoise runs entered
\* with equal lattices, the same p and such RNGs leave equal edge states
C10_Determinism ==
    \A k \in BothCalled :
        SameStream(k) =>
            /\ (/\ runs[1].log[k].op = runs[2].log[k].op
                /\ runs[1].log[k].op \in {"nextU32", "nextFloat"})
               => runs[1].log[k].ret = runs[2].log[k].ret
            /\ (/\ runs[1].log[k].op = "applyEdgeNoise"
                /\ runs[2].log[k].op = "applyEdgeNoise"
                /\ runs[1].log[k].p = runs[2].log[k].p
                /\ LatticeBefore(1, k) = LatticeBefore(2, k))
               => /\ runs[1].log[k].lat.hErr = runs[2].log[k].lat.hErr
                  /\ runs[1].log[k].lat.vErr = runs[2].log[k].lat.vErr

\* both runs have run the noise with the same p on equal lattices, which it changed,
\* and have then drawn with the same method
C10_Witness ==
    \E k \in BothCalled : \E m \in BothCalled :
        /\ k < m
        /\ SameStream(m)
        /\ runs[1].log[k].op = "applyEdgeNoise"
        /\ runs[2].log[k].op = "applyEdgeNoise"
        /\ runs[1].log[k].p = runs[2].log[k].p
        /\ LatticeBefore(1, k) = LatticeBefore(2, k)
        /\ runs[1].log[k].lat # LatticeBefore(1, k)
        /\ runs[1].log[m].op = "nextFloat"
        /\ runs[2].log[m].op = "nextFloat"

\* an integer in [0, 2^32): 32 bits
IsWord(x) == Len(x) = WordBits /\ \A i \in 1..WordBits : x[i] \in {0, 1}

\* a < b for two words: they first differ at a bit that is 0 in a and 1 in b
WordLess(a, b) ==
    \E i \in 1..WordBits : a[i] < b[i] /\ \A j \in 1..(i - 1) : a[j] = b[j]

\* C11: nextU32() returns an integer in [0, 2^32), and nextFloat() returns a quotient
\* nextU32() / 0xffffffff in [0, 1): its numerator is below 0xffffffff, never equal to it
C11_RngRange ==
    /\ call.op = "nextU32" => IsWord(ret)
    /\ call.op = "nextFloat" =>
           /\ IsWord(ret.num)
           /\ ret.den = AllOnes
           /\ WordLess(ret.num, ret.den)
           /\ ret.num # AllOnes

\* the first nextFloat() has returned a numerator whose twelve top bits are set, as
\* from the seed that an unsigned x >>> 17 would take to 0xffffffff (0xfff07fff)
C11_Witness ==
    /\ call.op = "nextFloat"
    /\ ncalls = 1
    /\ pre = lattice
    /\ \A i \in 1..12 : ret.num[i] = 1

\* the number of edges of a lattice: L * (H + 1) horizontal and (L + 1) * H vertical
EdgeCount(lat) == lat.L * (lat.H + 1) + (lat.L + 1) * lat.H

\* the k-th edge in the order horizontal edges row by row, then vertical edges row by row
EdgeAt(lat, k) ==
    IF k <= lat.L * (lat.H + 1)
    THEN HEdge((k - 1) % lat.L, (k - 1) \div lat.L)
    ELSE VEdge((k - 1 - lat.L * (lat.H + 1)) % (lat.L + 1),
               (k - 1 - lat.L * (lat.H + 1)) \div (lat.L + 1))

\* the next n values nextFloat() returns from state s
RECURSIVE Draws(_, _)
Draws(s, n) ==
    IF n = 0 THEN <<>>
    ELSE Once(nextFloat(s), LAMBDA f : <<f>> \o Draws(f.num, n - 1))

\* C12: applyEdgeNoise draws once per edge, in the order horizontal edges row by row
\* then vertical edges row by row, and flips the k-th edge iff the k-th draw is < p:
\* every edge is visited exactly once, the dimensions stay, the RNG has drawn
\* exactly once per edge, and p = 0 leaves the lattice unchanged
C12_NoiseVisits ==
    [][call'.op = "applyEdgeNoise" =>
          \E ds \in {Draws(rng, EdgeCount(lattice))} :
              /\ {EdgeAt(lattice, k) : k \in 1..EdgeCount(lattice)} = ValidEdges(lattice)
              /\ Cardinality(ValidEdges(lattice)) = EdgeCount(lattice)
              /\ \A k \in 1..EdgeCount(lattice) :
                     getEdge(lattice', EdgeAt(lattice, k))
                         = Xor(getEdge(lattice, EdgeAt(lattice, k)),
                               IF FloatLess(ds[k], call'.p) THEN 1 ELSE 0)
              /\ DOMAIN lattice'.hErr = DOMAIN lattice.hErr
              /\ DOMAIN lattice'.vErr = DOMAIN lattice.vErr
              /\ lattice'.L = lattice.L /\ lattice'.H = lattice.H
              /\ rng' = ds[EdgeCount(lattice)].num
              /\ call'.p = 0 => lattice' = lattice
    ]_vars

\* the noise has run with p strictly between 0 and 1 on a lattice that carried an
\* error, and has flipped some edges and left others
C12_Witness ==
    /\ call.op = "applyEdgeNoise"
    /\ call.p \in 1..3
    /\ HasErrors(pre)
    /\ \E e \in ValidEdges(pre) : getEdge(pre, e) # getEdge(lattice, e)
    /\ \E e \in ValidEdges(pre) : getEdge(pre, e) = 1 /\ getEdge(lattice, e) = 1

\* C13: randomInteriorEdge() returns an h edge with 0 <= x < W and 1 <= y <= H - 1 or
\* a v edge with 1 <= x <= W - 1 and 0 <= y < H, so the edge exists and both faces
\* adjacent to it exist
C13_InteriorEdge ==
    call.op = "randomInteriorEdge" =>
        /\ \/ /\ ret.kind = "h"
              /\ 0 <= ret.x /\ ret.x < state.gridW
              /\ 1 <= ret.y /\ ret.y <= state.gridH - 1
           \/ /\ ret.kind = "v"
              /\ 1 <= ret.x /\ ret.x <= state.gridW - 1
              /\ 0 <= ret.y /\ ret.y < state.gridH
        /\ ret \in ValidEdges(lattice)
        /\ Cardinality(AdjacentFaces(lattice, ret)) = 2

\* on the game's grid, randomInteriorEdge() has returned an h edge of the last
\* interior row
C13_Witness ==
    /\ call.op = "randomInteriorEdge"
    /\ state.gridW = GameW
    /\ ret.kind = "h"
    /\ ret.y = state.gridH - 1

\* the edges n successive randomInteriorEdge() calls return from RNG state s, and
\* the state of the RNG after them
RECURSIVE EdgesDrawn(_, _, _, _)
EdgesDrawn(W, H, s, n) ==
    IF n = 1
    THEN Once(randomInteriorEdge(W, H, s), LAMBDA r : [edges |-> <<r.e>>, s |-> r.s])
    ELSE Once(EdgesDrawn(W, H, s, n \div 2), LAMBDA a :
         Once(EdgesDrawn(W, H, a.s, n - n \div 2), LAMBDA b :
              [edges |-> a.edges \o b.edges, s |-> b.s]))

\* the interior edges of a lattice
InteriorEdges(lat) == {e \in ValidEdges(lat) : IsInteriorEdge(lat, e)}

\* C14: a toggleFreshInteriorEdge(used) call raises nothing and either (a) flips exactly
\* one edge bit, of an edge whose key was not in used, and adds that key and nothing
\* else to used, or (b) leaves the lattice and used unchanged, and then the edges of
\* MaxTries successive draws were all in used; and in a burst that started with an
\* empty used set the edges flipped since then are exactly those in used
C14_FreshEdge ==
    [][call'.op = "toggleFreshInteriorEdge" =>
          /\ ~raised'
          /\ lattice'.L = lattice.L /\ lattice'.H = lattice.H
          /\ \/ \E e \in ValidEdges(lattice) :
                    /\ Flipped(lattice, lattice') = {e}
                    /\ EdgeKey(e) \notin used
                    /\ used' = used \cup {EdgeKey(e)}
             \/ /\ lattice' = lattice
                /\ used' = used
                /\ \E d \in {EdgesDrawn(state.gridW, state.gridH, rng, MaxTries)} :
                       /\ rng' = d.s
                       /\ \A i \in 1..MaxTries : EdgeKey(d.edges[i]) \in used
          /\ {EdgeKey(e) : e \in Flipped(burst0', lattice')} = used'
          /\ Cardinality(Flipped(burst0', lattice')) = Cardinality(used')
    ]_vars

\* on a lattice that carried errors when the burst began, every interior edge has
\* been used and the last call has left the lattice as it was
C14_Witness ==
    /\ call.op = "toggleFreshInteriorEdge"
    /\ HasErrors(burst0)
    /\ used = {EdgeKey(e) : e \in InteriorEdges(lattice)}
    /\ lattice = pre

\* C15: new PlanarLattice(L, H) throws for L < 3 or H < 3 and leaves no instance; for
\* L >= 3 and H >= 3 it returns an instance of these dimensions with L * (H + 1)
\* horizontal and (L + 1) * H vertical edge bits, all 0, and an empty defect list
C15_Constructor ==
    call.op = "constructor" =>
        IF call.from.fx < 3 \/ call.from.fy < 3
        THEN raised /\ lattice = NoLattice
        ELSE /\ ~raised
             /\ lattice.L = call.from.fx
             /\ lattice.H = call.from.fy
             /\ DOMAIN lattice.hErr = 0..(call.from.fx * (call.from.fy + 1) - 1)
             /\ DOMAIN lattice.vErr = 0..((call.from.fx + 1) * call.from.fy - 1)
             /\ \A i \in DOMAIN lattice.hErr : lattice.hErr[i] = 0
             /\ \A i \in DOMAIN lattice.vErr : lattice.vErr[i] = 0
             /\ \A e \in ValidEdges(lattice) : getEdge(lattice, e) = 0
             /\ listDefects(lattice) = <<>>

\* an instance has been constructed while the instance before it carried errors
C15_Witness ==
    /\ call.op = "constructor"
    /\ ~raised
    /\ lattice.L > lattice.H
    /\ HasErrors(pre)

\* C16: reset() keeps L, H and the sizes of the arrays and sets every edge bit to 0:
\* right after it getEdge is 0 for every edge, faceSyndrome is 0 for every face and
\* listDefects() is empty
C16_Reset ==
    call.op = "reset" =>
        /\ lattice.L = pre.L
        /\ lattice.H = pre.H
        /\ DOMAIN lattice.hErr = DOMAIN pre.hErr
        /\ DOMAIN lattice.vErr = DOMAIN pre.vErr
        /\ \A i \in DOMAIN lattice.hErr : lattice.hErr[i] = 0
        /\ \A i \in DOMAIN lattice.vErr : lattice.vErr[i] = 0
        /\ \A e \in EdgeArgs(lattice) : getEdge(lattice, e) = 0
        /\ \A f \in FaceArgs(lattice) : faceSyndrome(lattice, f) = 0
        /\ listDefects(lattice) = <<>>

\* reset() was called on a lattice with errors on a horizontal and on a vertical edge
C16_Witness ==
    /\ call.op = "reset"
    /\ \E e \in ValidEdges(pre) : e.kind = "h" /\ getEdge(pre, e) = 1
    /\ \E e \in ValidEdges(pre) : e.kind = "v" /\ getEdge(pre, e) = 1


\* C17: a burst of k toggleFreshInteriorEdge calls sharing one used set raises the
\* number of defects by exactly 2k: after resetRun the run has 2 * startPairs
\* defects (24, 26 or 28), and an End Turn with noise has added 2 * pairsToAdd
\* defects (+2 .. +10) to those of the lattice the burst started on.
C17_DefectPairs ==
    /\ call.op = "resetRun" =>
           /\ call.p \in 12..14
           /\ Len(state.defects) = 2 * call.p
           /\ Len(state.defects) \in {24, 26, 28}
    /\ (call.op = "endTurn" /\ call.p > 0) =>
           /\ call.p \in 1..5
           /\ Len(state.defects) = Len(listDefects(burst0)) + 2 * call.p


\* the integers from m to n or from n to m
Between(m, n) == IF m <= n THEN m..n ELSE n..m

\* the faces of the L-shaped correction path from a to b: row a.fy from a.fx to b.fx,
\* then column b.fx from a.fy to b.fy
PathFaces(a, b) ==
    {FaceAt(x, a.fy) : x \in Between(a.fx, b.fx)}
        \cup {FaceAt(b.fx, y) : y \in Between(a.fy, b.fy)}

\* the path from a to b has a face in the top row and a face in the bottom row
SpansBoard(st, a, b) ==
    /\ \E f \in PathFaces(a, b) : f.fy = 0
    /\ \E f \in PathFaces(a, b) : f.fy = st.gridH - 1

\* the defects of st.defects on face f
DefectsAt(st, f) ==
    {st.defects[i] : i \in {k \in 1..Len(st.defects) :
                               st.defects[k].fx = f.fx /\ st.defects[k].fy = f.fy}}

\* C18: on a run that is not over, a click on a second defect b, with a selected,
\* enough energy for the cost of the path and a path from a to b that touches the
\* top row and the bottom row of faces, ends the game in that click and toggles no
\* edge of the lattice
C18_LogicalFailure ==
    [][(/\ call'.op = "click"
        /\ ~state.gameOver
        /\ Len(state.selected) = 1
        /\ \E b \in DefectsAt(state, call'.from) :
               /\ b.id # state.selected[1].id
               /\ state.energy >= pathCost(state.selected[1], b)
               /\ SpansBoard(state, state.selected[1], b))
       => (state'.gameOver /\ lattice' = lattice)]_vars

\* a click on a second defect ended the game: the two selected defects are in the
\* top and in the bottom row and in different columns, the energy of the path was
\* spent, the path was pushed and the lattice is the one before the click
C18_Witness ==
    /\ call.op = "click"
    /\ state.gameOver
    /\ Len(state.selected) = 2
    /\ state.selected[1].fx # state.selected[2].fx
    /\ DefectsAt(state, call.from) = {state.selected[2]}
    /\ SpansBoard(state, state.selected[1], state.selected[2])
    /\ state.energySpentThisTurn >= pathCost(state.selected[1], state.selected[2])
    /\ Len(state.paths) >= 1
    /\ HasErrors(lattice)
    /\ lattice = pre


\* C19: when all defects have been removed and the run is not over (state.defects
\* is empty, gameOver is false), the next End Turn ends the game as a win: gameOver
\* is true when its handler returns, whatever the turn number
C19_WinAtEndTurn ==
    [][(/\ call'.op = "endTurn"
        /\ ~state.gameOver
        /\ state.defects = <<>>)
       => state'.gameOver]_vars


\* C20: an End Turn on a run that is not over adds 1 to turn and sets energy to 12;
\* it changes the lattice only if the new turn number is even, and if the new turn
\* number is odd the lattice and the list of defects are as before
C20_NoiseEverySecondTurn ==
    [][(call'.op = "endTurn" /\ ~state.gameOver)
       => (/\ state'.turn = state.turn + 1
           /\ state'.energy = 12
           /\ lattice' # lattice => state'.turn % 2 = 0
           /\ state'.turn % 2 = 1 =>
                  /\ lattice' = lattice
                  /\ state'.defects = state.defects)]_vars

\* an End Turn began turn 3 of a run that goes on, after the End Turn that began
\* turn 2 with its noise and after a correction was paid for: the energy is 12 again
\* and the lattice, which has errors, is the one before the End Turn
C20_Witness ==
    /\ call.op = "endTurn"
    /\ ~state.gameOver
    /\ state.turn = 3
    /\ state.energy = 12
    /\ state.score > 0
    /\ state.defects # <<>>
    /\ HasErrors(lattice)
    /\ lattice = pre


\* the edge the step from face f to the adjacent face g crosses
CrossedEdge(f, g) ==
    IF g.fx = f.fx + 1 THEN VEdge(f.fx + 1, f.fy)
    ELSE IF g.fx = f.fx - 1 THEN VEdge(f.fx, f.fy)
    ELSE IF g.fy = f.fy + 1 THEN HEdge(f.fx, f.fy + 1)
    ELSE HEdge(f.fx, f.fy)

\* the steps of the L-shaped path from a to b, in order: along row a.fy to column
\* b.fx, then along column b.fx to row b.fy
LPath(a, b) ==
    [i \in 1..(Abs(a.fx - b.fx) + Abs(a.fy - b.fy)) |->
        IF i <= Abs(a.fx - b.fx)
        THEN <<FaceAt(a.fx + (IF b.fx > a.fx THEN i - 1 ELSE 1 - i), a.fy),
               FaceAt(a.fx + (IF b.fx > a.fx THEN i ELSE 0 - i), a.fy)>>
        ELSE <<FaceAt(b.fx, a.fy + (IF b.fy > a.fy THEN i - Abs(a.fx - b.fx) - 1
                                                   ELSE Abs(a.fx - b.fx) + 1 - i)),
               FaceAt(b.fx, a.fy + (IF b.fy > a.fy THEN i - Abs(a.fx - b.fx)
                                                   ELSE Abs(a.fx - b.fx) - i))>>]

\* C22: applyCorrectionPath(A, B) for two distinct in-bounds faces, on any lattice,
\* does not throw; it makes the |A.fx - B.fx| + |A.fy - B.fy| unit steps of the
\* L-shaped path, x steps first, each toggling one interior edge and no edge twice;
\* afterwards the syndrome of A and of B is flipped and that of every other face is
\* as before
C22_CorrectionPath ==
    (call.op = "applyCorrectionPath" /\ call.from # call.to) =>
        /\ ~raised
        /\ ret = LPath(call.from, call.to)
        /\ Len(ret) = Abs(call.from.fx - call.to.fx) + Abs(call.from.fy - call.to.fy)
        /\ Flipped(pre, lattice) = {CrossedEdge(ret[i][1], ret[i][2]) : i \in 1..Len(ret)}
        /\ Cardinality(Flipped(pre, lattice)) = Len(ret)
        /\ \A e \in Flipped(pre, lattice) : IsInteriorEdge(pre, e)
        /\ ChangedFaces(pre, lattice) = {call.from, call.to}
        /\ (faceSyndrome(pre, call.from) = 1 /\ faceSyndrome(pre, call.to) = 1) =>
               /\ faceSyndrome(lattice, call.from) = 0
               /\ faceSyndrome(lattice, call.to) = 0
               /\ \A f \in ValidFaces(lattice) :
                      faceSyndrome(lattice, f) = 1 => faceSyndrome(pre, f) = 1

\* applyCorrectionPath was called between two defects that differ in fx and in fy, on
\* a lattice with a third defect, and removed the two
C22_Witness ==
    /\ call.op = "applyCorrectionPath"
    /\ call.from.fx # call.to.fx
    /\ call.from.fy # call.to.fy
    /\ faceSyndrome(pre, call.from) = 1
    /\ faceSyndrome(pre, call.to) = 1
    /\ faceSyndrome(lattice, call.from) = 0
    /\ faceSyndrome(lattice, call.to) = 0
    /\ listDefects(lattice) # <<>>
    /\ ~raised


\* C21: in every state of the game after resetRun has returned, whatever canvas
\* clicks, Scan, End Turn and Restart clicks were made, the number of defects of
\* the lattice is even, state.defects lists those defects, and no resetRun took its
\* branch for an odd number of defects
C21_EvenDefects ==
    /\ \E faces \in {listDefects(lattice)} :
           /\ Len(faces) % 2 = 0
           /\ state.defects = [i \in 1..Len(faces) |-> DefectOf(faces[i])]
    /\ call.op = "resetRun" => ret = <<FALSE>>

\* Restart was clicked after three other inputs on a lattice with errors, and the new
\* run starts with defects
C21_Witness ==
    /\ call.op = "resetRun"
    /\ ncalls >= 4
    /\ HasErrors(pre)
    /\ pre # burst0
    /\ state.turn = 1
    /\ Len(state.defects) >= 2
    /\ ret = <<FALSE>>


\* C23: energy is within 0..12 in every state of the game.  A click on a second
\* defect b while a is selected, on a run that is not over, is a correction that
\* costs |a.fx - b.fx| + |a.fy - b.fy|: if that is more than the energy left, energy,
\* energySpentThisTurn, the lattice and the defects are as before and a alone stays
\* selected; otherwise the cost is taken from energy and added to energySpentThisTurn
C23_Energy ==
    [][/\ state.energy \in 0..12
       /\ state'.energy \in 0..12
       /\ (/\ call'.op = "click"
           /\ ~state.gameOver
           /\ Len(state.selected) = 1)
          => \A b \in DefectsAt(state, call'.from) :
                 b.id # state.selected[1].id =>
                     LET cost == Abs(state.selected[1].fx - b.fx)
                                   + Abs(state.selected[1].fy - b.fy)
                     IN  IF cost > state.energy
                         THEN /\ state'.energy = state.energy
                              /\ state'.energySpentThisTurn = state.energySpentThisTurn
                              /\ lattice' = lattice
                              /\ state'.defects = state.defects
                              /\ state'.selected = <<state.selected[1]>>
                         ELSE /\ state'.energy = state.energy - cost
                              /\ state'.energySpentThisTurn
                                     = state.energySpentThisTurn + cost]_vars

\* a correction was rejected: after energy was spent in this turn, the click on
\* defect b, with a selected, left a selected and the energy below the cost from a to b
C23_Witness ==
    /\ call.op = "click"
    /\ ~state.gameOver
    /\ Len(state.selected) = 1
    /\ state.energySpentThisTurn > 0
    /\ state.energy + state.energySpentThisTurn = 12
    /\ lattice = pre
    /\ \E b \in DefectsAt(state, call.from) :
           /\ b.id # state.selected[1].id
           /\ pathCost(state.selected[1], b) > state.energy


\* the edge a key of the used set stands for
EdgeOfKey(k) == [kind |-> k[1], x |-> k[2], y |-> k[3]]

\* C24: when gameOver is true, a canvas click, a Scan and an End Turn leave the
\* lattice, the defects, the selection, turn, energy, score and bestScore as they
\* are, and gameOver true; a Restart makes gameOver false, turn 1, energy 12 and
\* score 0, and the errors of the lattice afterwards are those of its new burst
\* alone, flipped on an all-zero lattice
C24_GameOverFrame ==
    [][state.gameOver =>
          IF call'.op = "resetRun"
          THEN /\ ~state'.gameOver
               /\ state'.turn = 1
               /\ state'.energy = 12
               /\ state'.score = 0
               /\ ~HasErrors(burst0')
               /\ {e \in ValidEdges(lattice') : getEdge(lattice', e) = 1}
                      = {EdgeOfKey(k) : k \in used'}
          ELSE /\ call'.op \in {"click", "scan", "endTurn"}
               /\ state'.gameOver
               /\ lattice' = lattice
               /\ state'.defects = state.defects
               /\ state'.selected = state.selected
               /\ state'.turn = state.turn
               /\ state'.energy = state.energy
               /\ state'.score = state.score
               /\ state'.bestScore = state.bestScore]_vars

\* End Turn was clicked on a run that a logical failure ended in turn 1: the turn is
\* still 1, the energy still short of 12 and the two defects still selected
C24_Witness ==
    /\ call.op = "endTurn"
    /\ state.gameOver
    /\ state.turn = 1
    /\ state.energy < 12
    /\ Len(state.selected) = 2
    /\ Len(state.defects) >= 2
    /\ lattice = pre


\* the least element of a non-empty sequence of numbers
MinOf(f) == CHOOSE m \in {f[i] : i \in 1..Len(f)} : \A i \in 1..Len(f) : m <= f[i]

\* C25: once a run has ended, bestScore is the least of the final scores of the runs
\* that have ended so far
C25_BestIsMinimum ==
    finals # <<>> => state.bestScore = MinOf(finals)

====
